---- MODULE Spec2Model ----
(***************************************************************************)
(* Mene Portal: the Veritas verification engine (VeritasSyncMemory), its   *)
(* confidence arithmetic, and the per-agent memory store (MemorySystem).   *)
(*                                                                         *)
(* Ten specifications share the module:                                    *)
(*   SpecPure     calculateFinalConfidence / determineVerificationStatus   *)
(*                applied to inputs drawn from bounded sets                *)
(*   SpecVeritas  the engine: initialize() running in the background and   *)
(*                overlapping verifyClaim calls                            *)
(*   LiveVeritas  SpecVeritas with weak fairness of initialize() and of    *)
(*                the ledger write, for the progress of verifyClaim        *)
(*   SpecMemory   the memory store: createBranch / deleteBranch /          *)
(*                addMemory with their file writes in flight               *)
(*   SpecRecall   getRecentMemories read from stores of bounded size       *)
(*   SpecTransfer exportAllMemories and importFromMeneLTM into a new       *)
(*                store                                                    *)
(*   SpecPortal   the server: start-up, the agent coordinator's            *)
(*                createAgent / deleteAgent / query and the send_message   *)
(*                broadcast loop, with backend calls in flight             *)
(*   SpecContext  gatherContext read from stores of bounded size           *)
(*   SpecSync     prepareSyncData and syncMemoryAcrossPlatforms on drawn   *)
(*                snapshots, budgets and platform lists                    *)
(*   SpecSearch   the ledger search of /api/veritas/search on drawn        *)
(*                ledgers, queries and limits                              *)
(*                                                                         *)
(* JavaScript numbers are modelled as exact rationals <<n, d>> (d > 0,     *)
(* lowest terms); IEEE-754 rounding is outside the model.                  *)
(***************************************************************************)
EXTENDS Integers, Sequences, FiniteSets, TLC

VARIABLES
    \* --- SpecPure ---
    pureIn,             \* the call under test: [fn, items, confidence]
    pureOut,            \* its result, or NoResult before the call
    \* --- SpecVeritas ---
    initStage,          \* position of the constructor's un-awaited initialize()
    truthFile,          \* truth_database.json on the AI Drive (NoFile when absent)
    verificationSources,\* this.verificationSources (Undefined until initialised)
    syncDatabase,       \* this.syncDatabase, as a sequence of entries
    truthDatabase,      \* this.truthDatabase: id -> verification record
    calls,              \* the verifyClaim invocations in flight, per caller slot
    returned,           \* what verifyClaim has handed back to its callers, in order
    now,                \* logical clock behind new Date()
    syncHistory,        \* this.syncHistory
    \* --- SpecMemory ---
    branches,           \* this.branches: agentId -> branch
    sharedMemory,       \* this.sharedMemory
    branchFiles,        \* <memoryDir>/<agentId>.json on disk
    sharedFile,         \* <memoryDir>/shared.json on disk
    memIO,              \* fs operations issued and not yet completed
    memLast,            \* the last store operation a caller saw complete
    memSeq,             \* operations issued so far (also feeds record ids)
    transfer,           \* the last exportAllMemories result and what was imported
    \* --- SpecPortal ---
    serverStage,        \* position of initializeServer (backend/server.js)
    agents,             \* AgentCoordinator.agents: agentId -> agent
    coIO,               \* model-backend calls of query() awaiting their answer
    coLast,             \* the last coordinator call or broadcast a caller saw end
    documents           \* CogniVaultBridge.documents: the local document index

pureVars == <<pureIn, pureOut>>
veritasVars == <<initStage, truthFile, verificationSources, syncDatabase,
                 truthDatabase, calls, returned, now, syncHistory>>
memoryVars == <<branches, sharedMemory, branchFiles, sharedFile, memIO,
                memLast, memSeq, transfer>>
coordVars == <<serverStage, agents, coIO, coLast, documents>>
vars == <<pureVars, veritasVars, memoryVars, coordVars>>

(***************************************************************************)
(* Bounds of the model                                                     *)
(***************************************************************************)
MaxItems == 2           \* evidence items in a SpecPure input
ConfSteps == 20         \* SpecPure confidences are k / ConfSteps
MaxCallers == 2         \* verifyClaim calls that may overlap
MaxVerifications == 2   \* verifyClaim calls issued in a behaviour
MaxMemOps == 3          \* memory-store operations issued in a behaviour
MaxCount == 2           \* largest count passed to getRecentMemories
MaxRecords == 2         \* records of a branch when getRecentMemories is called
MaxTransferOps == 3     \* export / new store / import calls issued in a behaviour
MaxPortalOps == 3       \* coordinator calls and broadcasts issued in a behaviour
MaxFacts == 6           \* verified_facts of a snapshot handed to prepareSyncData
MaxLedger == 3          \* records of a ledger that is searched

(***************************************************************************)
(* Exact rational arithmetic for JavaScript numbers                        *)
(***************************************************************************)
RECURSIVE GCD(_, _)
GCD(a, b) == IF b = 0 THEN a ELSE GCD(b, a % b)

Rat(n, d) == IF n = 0 THEN <<0, 1>> ELSE <<n \div GCD(n, d), d \div GCD(n, d)>>
RAdd(x, y) == Rat(x[1] * y[2] + y[1] * x[2], x[2] * y[2])
RMul(x, y) == Rat(x[1] * y[1], x[2] * y[2])
RDiv(x, y) == Rat(x[1] * y[2], x[2] * y[1])
RLt(x, y) == x[1] * y[2] < y[1] * x[2]
RGe(x, y) == ~RLt(x, y)
RMin(x, y) == IF RLt(y, x) THEN y ELSE x
Zero == <<0, 1>>

(***************************************************************************)
(* Confidence aggregation and status (part_011:506-552)                    *)
(***************************************************************************)
SourceTypes == {"historical_reference", "memory_reference", "agent_research",
                "agent_critical", "external_verification", "browser_verification"}

\* this.verificationThresholds
high_confidence == Rat(9, 10)
medium_confidence == Rat(7, 10)
low_confidence == Rat(5, 10)

\* getSourceWeight with the historical_reference and agent_critical weights swapped
getSourceWeightSwapped(sourceType) ==
    CASE sourceType = "historical_reference" -> Rat(6, 10)
      [] sourceType = "memory_reference" -> Rat(9, 10)
      [] sourceType = "agent_research" -> Rat(7, 10)
      [] sourceType = "agent_critical" -> Rat(8, 10)
      [] sourceType = "external_verification" -> Rat(7, 10)
      [] sourceType = "browser_verification" -> Rat(5, 10)
      [] OTHER -> Rat(5, 10)

\* weights[sourceType] || 0.5
getSourceWeight(sourceType) ==
    CASE sourceType = "historical_reference" -> Rat(8, 10)
      [] sourceType = "memory_reference" -> Rat(9, 10)
      [] sourceType = "agent_research" -> Rat(7, 10)
      [] sourceType = "agent_critical" -> Rat(6, 10)
      [] sourceType = "external_verification" -> Rat(7, 10)
      [] sourceType = "browser_verification" -> Rat(5, 10)
      [] OTHER -> Rat(5, 10)

\* The for-loop of calculateFinalConfidence: acc = [totalWeight, weightedSum]
RECURSIVE AccumulateSources(_, _, _)
AccumulateSources(sources, i, acc) ==
    IF i > Len(sources) THEN acc
    ELSE LET weight == getSourceWeight(sources[i].type)
         IN AccumulateSources(sources, i + 1,
                [totalWeight |-> RAdd(acc.totalWeight, weight),
                 weightedSum |-> RAdd(acc.weightedSum,
                                      RMul(sources[i].confidence, weight))])

calculateFinalConfidence(sources) ==
    IF Len(sources) = 0 THEN Zero
    ELSE LET acc == AccumulateSources(sources, 1,
                        [totalWeight |-> Zero, weightedSum |-> Zero])
         IN IF RLt(Zero, acc.totalWeight)
            THEN RDiv(acc.weightedSum, acc.totalWeight)
            ELSE Zero

\* determineVerificationStatus with strict comparisons (> in place of >=)
determineVerificationStatusStrict(confidence) ==
    IF RLt(high_confidence, confidence) THEN "verified_high"
    ELSE IF RLt(medium_confidence, confidence) THEN "verified_medium"
    ELSE IF RLt(low_confidence, confidence) THEN "verified_low"
    ELSE "unverified"

determineVerificationStatus(confidence) ==
    IF RGe(confidence, high_confidence) THEN "verified_high"
    ELSE IF RGe(confidence, medium_confidence) THEN "verified_medium"
    ELSE IF RGe(confidence, low_confidence) THEN "verified_low"
    ELSE "unverified"

(***************************************************************************)
(* Inputs of the verification engine                                       *)
(***************************************************************************)
\* Claim texts posted to /api/veritas/verify. A body with no "claim" member
\* leaves the argument undefined (server.js:377-379 passes it on unchecked).
StringClaims == {"Water boils at 100C at sea level"}
NotAString == "<undefined>"
ClaimInputs == StringClaims \cup {NotAString}

\* context arguments: omitted (the default {} applies) or a JSON number
CtxDefault == [kind |-> "undefined", n |-> 0]
CtxNumber(k) == [kind |-> "number", n |-> k]
ContextInputs == {CtxDefault, CtxNumber(1)}

\* the (claim, context) pairs the model submits
VerifyInputs ==
    {<<"Water boils at 100C at sea level", CtxDefault>>,
     <<"Water boils at 100C at sea level", CtxNumber(1)>>,
     <<NotAString, CtxDefault>>}

\* JSON.stringify(context), with context = {} when the argument is omitted
JSONstringify(context) ==
    IF context.kind = "undefined" THEN "{}" ELSE ToString(context.n)

\* sha256(content).hex.substring(0, 16): modelled as injective on the content
generateHash(content) == content

\* claim.toLowerCase().split(' ').filter(word => word.length > 3).length
KeywordCount(claim) ==
    CASE claim = "Water boils at 100C at sea level" -> 4
      [] OTHER -> 0

\* What fs.readFile of the chat log yields for a claim: a failure, or a log
\* containing none, one or all of the claim's keywords
HistoryReads(claim) ==
    {[ok |-> FALSE, matches |-> 0]}
        \cup {[ok |-> TRUE, matches |-> m] : m \in {0, 1, KeywordCount(claim)}}

AllHistoryReads == UNION {HistoryReads(claim) : claim \in StringClaims}

\* What syncWithAIDrive may have loaded: one entry whose content contains
\* the claim, or one entry with an extracted claim whose
\* calculateStringSimilarity to the claim is the given number of tenths
\* (2/10 is below the 0.3 cut, so that database yields no match)
SimilarityLevels == {2, 10}
SyncEntries ==
    {[contentHit |-> TRUE, claims |-> <<>>]}
        \cup {[contentHit |-> FALSE, claims |-> <<s>>] : s \in SimilarityLevels}
SyncDatabases == {<<e>> : e \in SyncEntries}

(***************************************************************************)
(* Verification records                                                    *)
(***************************************************************************)
NoTime == 0
NoError == ""
NoSources == <<>>

NewVerification(verificationId, claim, context, startedAt) ==
    [id |-> verificationId, claim |-> claim, context |-> context,
     sources |-> NoSources, confidence |-> Zero, status |-> "verifying",
     startedAt |-> startedAt, completedAt |-> NoTime, error |-> NoError]

NoRecord == NewVerification("", "", CtxDefault, NoTime)

Push(v, item) == [v EXCEPT !.sources = Append(@, item)]

(***************************************************************************)
(* Evidence sources (part_011:297-501)                                     *)
(***************************************************************************)
searchChatGPTHistory(claim, read) ==
    IF ~read.ok \/ KeywordCount(claim) = 0
    THEN [relevantEntries |-> IF read.ok THEN read.matches ELSE 0,
          confidence |-> Zero]
    ELSE [relevantEntries |-> read.matches,
          confidence |-> RMin(RMul(Rat(read.matches, KeywordCount(claim)),
                                   Rat(8, 10)),
                              Rat(8, 10))]

\* the inner loop over memoryEntry.claims
RECURSIVE ScanExtractedClaims(_, _, _)
ScanExtractedClaims(extracted, j, acc) ==
    IF j > Len(extracted) THEN acc
    ELSE LET similarity == Rat(extracted[j], 10)
         IN ScanExtractedClaims(extracted, j + 1,
                IF RLt(Rat(3, 10), similarity)
                THEN [totalMatches |-> acc.totalMatches + 1,
                      totalConfidence |->
                          RAdd(acc.totalConfidence, RMul(similarity, Rat(6, 10)))]
                ELSE acc)

\* the outer loop over this.syncDatabase
RECURSIVE ScanSyncDatabase(_, _, _)
ScanSyncDatabase(db, i, acc) ==
    IF i > Len(db) THEN acc
    ELSE LET hit == IF db[i].contentHit
                    THEN [totalMatches |-> acc.totalMatches + 1,
                          totalConfidence |-> RAdd(acc.totalConfidence, Rat(7, 10))]
                    ELSE acc
         IN ScanSyncDatabase(db, i + 1, ScanExtractedClaims(db[i].claims, 1, hit))

searchAIDriveMemory(db) ==
    LET acc == ScanSyncDatabase(db, 1, [totalMatches |-> 0, totalConfidence |-> Zero])
        divisor == IF acc.totalMatches > 1 THEN acc.totalMatches ELSE 1
    IN [matches |-> acc.totalMatches,
        confidence |-> RMin(RDiv(acc.totalConfidence, Rat(divisor, 1)), Rat(9, 10))]

\* verifyAgainstInternal leaving its loop over the sources when the read of
\* the chat log fails
verifyAgainstInternalAborting(v, read, db) ==
    LET historyEvidence == searchChatGPTHistory(v.claim, read)
        memoryEvidence == searchAIDriveMemory(db)
        v1 == IF historyEvidence.relevantEntries > 0
              THEN Push(v, [name |-> "ChatGPT History",
                            confidence |-> RMul(historyEvidence.confidence, Rat(8, 10)),
                            type |-> "historical_reference"])
              ELSE v
    IN IF memoryEvidence.matches > 0 /\ read.ok
       THEN Push(v1, [name |-> "AI Drive Knowledge",
                      confidence |-> RMul(memoryEvidence.confidence, Rat(9, 10)),
                      type |-> "memory_reference"])
       ELSE v1

\* the two internal sources, in the order of this.verificationSources
verifyAgainstInternal(v, read, db) ==
    LET historyEvidence == searchChatGPTHistory(v.claim, read)
        memoryEvidence == searchAIDriveMemory(db)
        v1 == IF historyEvidence.relevantEntries > 0
              THEN Push(v, [name |-> "ChatGPT History",
                            confidence |-> RMul(historyEvidence.confidence, Rat(8, 10)),
                            type |-> "historical_reference"])
              ELSE v
    IN IF memoryEvidence.matches > 0
       THEN Push(v1, [name |-> "AI Drive Knowledge",
                      confidence |-> RMul(memoryEvidence.confidence, Rat(9, 10)),
                      type |-> "memory_reference"])
       ELSE v1

\* askAgentForVerification with every agent answering as veritas does
askAgentForVerificationAsVeritas(agentName) == [confidence |-> Rat(8, 10)]

\* the simulated agent replies
askAgentForVerification(agentName) ==
    CASE agentName = "bonny" -> [confidence |-> Rat(7, 10)]
      [] agentName = "steve" -> [confidence |-> Rat(6, 10)]
      [] agentName = "veritas" -> [confidence |-> Rat(8, 10)]
      [] OTHER -> [confidence |-> Rat(5, 10)]

verifyWithAgents(v) ==
    LET bonnyVerification == askAgentForVerification("bonny")
        steveVerification == askAgentForVerification("steve")
    IN Push(Push(v, [name |-> "Agent Network - Research",
                     confidence |-> bonnyVerification.confidence,
                     type |-> "agent_research"]),
            [name |-> "Agent Network - Critical Analysis",
             confidence |-> steveVerification.confidence,
             type |-> "agent_critical"])

verifyWithBrowser(v) ==
    Push(v, [name |-> "Browser Verification",
             confidence |-> Rat(6, 10),
             type |-> "external_verification"])

\* the guard of part_011:268 with its comparison inverted
BrowserNeededInverted(v) == RGe(v.confidence, medium_confidence)

\* verification.confidence < this.verificationThresholds.medium_confidence
BrowserNeeded(v) == RLt(v.confidence, medium_confidence)

\* the record as it stands when the guard of part_011:268 is evaluated
BeforeGuard(v, read, db) == verifyWithAgents(verifyAgainstInternal(v, read, db))

\* part_011:262-275: gather the evidence and seal the record
SealVerification(v, read, db, completedAt) ==
    LET v2 == BeforeGuard(v, read, db)
        v3 == IF BrowserNeeded(v2) THEN verifyWithBrowser(v2) ELSE v2
        confidence == calculateFinalConfidence(v3.sources)
    IN [v3 EXCEPT !.confidence = confidence,
                  !.status = determineVerificationStatus(confidence),
                  !.completedAt = completedAt]

\* part_011:284-290: the catch block
SealError(v, message, completedAt) ==
    [v EXCEPT !.status = "error", !.error = message, !.completedAt = completedAt]

(***************************************************************************)
(* The engine's state                                                      *)
(***************************************************************************)
Callers == 1..MaxCallers

EmptyLedger == [k \in {} |-> NoRecord]

LedgerSet(ledger, k, v) ==
    [x \in DOMAIN ledger \cup {k} |-> IF x = k THEN v ELSE ledger[x]]

\* for (const [key, value] of Object.entries(truthData)) truthDatabase.set(key, value)
LedgerMerge(ledger, loaded) ==
    [x \in DOMAIN ledger \cup DOMAIN loaded |->
        IF x \in DOMAIN loaded THEN loaded[x] ELSE ledger[x]]

\* A record an earlier process sealed and saved (times 1 and 2, before this
\* process started): no internal evidence, both peers and the external check
PriorRecord ==
    SealVerification(
        NewVerification(generateHash("Water boils at 100C at sea level" \o JSONstringify(CtxDefault)),
                        "Water boils at 100C at sea level", CtxDefault, 1),
        [ok |-> FALSE, matches |-> 0], <<>>, 2)

\* truth_database.json as the process finds it
TruthFiles == {EmptyLedger, LedgerSet(EmptyLedger, PriorRecord.id, PriorRecord)}

NoGuard == [reached |-> FALSE, running |-> Zero, browserInvoked |-> FALSE]

IdleCall == [pc |-> "idle", claim |-> "", context |-> CtxDefault,
             issuedAt |-> NoTime, verification |-> NoRecord,
             guard |-> NoGuard, snapshot |-> EmptyLedger]

Busy == {p \in Callers : calls[p].pc # "idle"}

\* a new call takes the lowest free slot (slots carry no identity)
CanIssue(p) ==
    /\ calls[p].pc = "idle"
    /\ \A q \in Callers : q < p => calls[q].pc # "idle"
    /\ Len(returned) + Cardinality(Busy) < MaxVerifications

\* what the caller of verifyClaim observes
Returns(p, claim, context, issuedAt, outcome, record, cached, guard) ==
    returned' = Append(returned,
        [claim |-> claim, context |-> context,
         issuedAt |-> issuedAt, returnedAt |-> now, outcome |-> outcome,
         record |-> record, cached |-> cached, guard |-> guard])

VerificationId(claim, context) == generateHash(claim \o JSONstringify(context))

InitVeritas ==
    /\ initStage = "loadTruthDatabase"
    /\ truthFile \in TruthFiles
    /\ verificationSources = "undefined"
    /\ syncDatabase = <<>>
    /\ truthDatabase = EmptyLedger
    /\ calls = [p \in Callers |-> IdleCall]
    /\ returned = <<>>
    /\ now = 3
    /\ syncHistory = <<>>

(***************************************************************************)
(* initialize(), started by the constructor and not awaited (part_011:29)  *)
(***************************************************************************)
\* loadTruthDatabase: the file is read and parsed into the ledger. A file
\* that is absent or unreadable is the EmptyLedger: the code then writes the
\* (empty) ledger back, which leaves this state
LoadTruthDatabase ==
    /\ initStage = "loadTruthDatabase"
    /\ truthDatabase' = LedgerMerge(truthDatabase, truthFile)
    /\ initStage' = "syncWithAIDrive"
    /\ UNCHANGED <<truthFile, verificationSources, syncDatabase, calls, returned, now>>
    /\ UNCHANGED <<pureVars, memoryVars, coordVars, syncHistory>>

\* syncWithAIDrive fills this.syncDatabase through processMemoryFile and
\* pushes its record onto this.syncHistory (part_011:129-133), then
\* initializeVerificationSources sets this.verificationSources; verifyClaim
\* reads syncDatabase only once verificationSources is set, so the two run
\* as one step
FinishInitialize ==
    /\ initStage = "syncWithAIDrive"
    /\ syncDatabase' \in SyncDatabases
    /\ verificationSources' = "initialized"
    /\ syncHistory' = Append(syncHistory,
                             [timestamp |-> now, status |-> "success",
                              filesProcessed |-> Len(syncDatabase')])
    /\ initStage' = "ready"
    /\ UNCHANGED <<truthFile, truthDatabase, calls, returned, now>>
    /\ UNCHANGED <<pureVars, memoryVars, coordVars>>

(***************************************************************************)
(* verifyClaim (part_011:238-292), split at its two file-I/O suspensions   *)
(***************************************************************************)
\* part_011:239: claim.substring on a claim that is no string throws before
\* the try block; the promise rejects
VerifyThrows(p, claim, context) ==
    /\ CanIssue(p)
    /\ claim = NotAString
    /\ Returns(p, claim, context, now, "throw", NoRecord, FALSE, NoGuard)
    /\ now' = now + 1
    /\ UNCHANGED <<initStage, truthFile, verificationSources, syncDatabase,
                   truthDatabase, calls>>
    /\ UNCHANGED <<pureVars, memoryVars, coordVars, syncHistory>>

\* part_011:244-248: the ledger has the id
VerifyCached(p, claim, context) ==
    /\ CanIssue(p)
    /\ claim # NotAString
    /\ VerificationId(claim, context) \in DOMAIN truthDatabase
    /\ Returns(p, claim, context, now, "record",
               truthDatabase[VerificationId(claim, context)], TRUE, NoGuard)
    /\ now' = now + 1
    /\ UNCHANGED <<initStage, truthFile, verificationSources, syncDatabase,
                   truthDatabase, calls>>
    /\ UNCHANGED <<pureVars, memoryVars, coordVars, syncHistory>>

\* part_011:298: this.verificationSources is still undefined, .filter throws
\* a TypeError, and the catch block of verifyClaim seals the record as error
VerifyBeforeSources(p, claim, context) ==
    /\ CanIssue(p)
    /\ claim # NotAString
    /\ VerificationId(claim, context) \notin DOMAIN truthDatabase
    /\ verificationSources = "undefined"
    /\ Returns(p, claim, context, now, "record",
               SealError(NewVerification(VerificationId(claim, context),
                                         claim, context, now),
                         "Cannot read properties of undefined (reading 'filter')",
                         now),
               FALSE, NoGuard)
    /\ now' = now + 1
    /\ UNCHANGED <<initStage, truthFile, verificationSources, syncDatabase,
                   truthDatabase, calls>>
    /\ UNCHANGED <<pureVars, memoryVars, coordVars, syncHistory>>

\* part_011:250-262 up to the readFile of searchChatGPTHistory
VerifyBegin(p, claim, context) ==
    /\ CanIssue(p)
    /\ claim # NotAString
    /\ VerificationId(claim, context) \notin DOMAIN truthDatabase
    /\ verificationSources = "initialized"
    /\ calls' = [calls EXCEPT ![p] =
           [IdleCall EXCEPT !.pc = "readHistory", !.claim = claim,
                            !.context = context, !.issuedAt = now,
                            !.verification =
                                NewVerification(VerificationId(claim, context),
                                                claim, context, now)]]
    /\ now' = now + 1
    /\ UNCHANGED <<initStage, truthFile, verificationSources, syncDatabase,
                   truthDatabase, returned>>
    /\ UNCHANGED <<pureVars, memoryVars, coordVars, syncHistory>>

\* the readFile settles; the rest of the evidence gathering has no file I/O,
\* so it runs through to truthDatabase.set and the writeFile of
\* saveTruthDatabase (part_011:262-279)
GatherAndStore(p, read) ==
    /\ calls[p].pc = "readHistory"
    /\ read \in HistoryReads(calls[p].claim)
    /\ LET v == calls[p].verification
           v2 == BeforeGuard(v, read, syncDatabase)
           sealed == SealVerification(v, read, syncDatabase, now)
           ledger == LedgerSet(truthDatabase, v.id, sealed)
       IN /\ truthDatabase' = ledger
          /\ calls' = [calls EXCEPT ![p].pc = "saveTruthDatabase",
                                    ![p].verification = sealed,
                                    ![p].guard =
                                        [reached |-> TRUE,
                                         running |-> calculateFinalConfidence(v2.sources),
                                         browserInvoked |->
                                             Len(sealed.sources) > Len(v2.sources)],
                                    ![p].snapshot = ledger]
    /\ now' = now + 1
    /\ UNCHANGED <<initStage, truthFile, verificationSources, syncDatabase, returned>>
    /\ UNCHANGED <<pureVars, memoryVars, coordVars, syncHistory>>

\* the writeFile settles and verifyClaim returns the record
SaveDone(p) ==
    /\ calls[p].pc = "saveTruthDatabase"
    /\ truthFile' = calls[p].snapshot
    /\ Returns(p, calls[p].claim, calls[p].context, calls[p].issuedAt, "record",
               calls[p].verification, FALSE, calls[p].guard)
    /\ calls' = [calls EXCEPT ![p] = IdleCall]
    /\ now' = now + 1
    /\ UNCHANGED <<initStage, verificationSources, syncDatabase, truthDatabase>>
    /\ UNCHANGED <<pureVars, memoryVars, coordVars, syncHistory>>

NextVeritas ==
    \/ LoadTruthDatabase
    \/ FinishInitialize
    \/ \E p \in Callers, in \in VerifyInputs :
           \/ VerifyThrows(p, in[1], in[2])
           \/ VerifyCached(p, in[1], in[2])
           \/ VerifyBeforeSources(p, in[1], in[2])
           \/ VerifyBegin(p, in[1], in[2])
    \/ \E p \in Callers, read \in AllHistoryReads : GatherAndStore(p, read)
    \/ \E p \in Callers : SaveDone(p)

(***************************************************************************)
(* The pure functions on drawn inputs                                      *)
(***************************************************************************)
ItemTypes == SourceTypes \cup {"unlisted_type"}
ItemConfidences == {Rat(0, 10), Rat(6, 10), Rat(9, 10), Rat(10, 10)}
EvidenceItems ==
    {[name |-> "input", confidence |-> c, type |-> t] :
        c \in ItemConfidences, t \in ItemTypes}

RECURSIVE SeqsUpTo(_, _)
SeqsUpTo(S, n) ==
    IF n = 0 THEN {<<>>}
    ELSE LET shorter == SeqsUpTo(S, n - 1)
         IN shorter \cup {Append(q, x) : q \in {r \in shorter : Len(r) = n - 1}, x \in S}

NoResult == [done |-> FALSE, confidence |-> Zero, status |-> ""]

InitPure ==
    /\ pureOut = NoResult
    /\ \/ \E items \in SeqsUpTo(EvidenceItems, MaxItems) :
              pureIn = [fn |-> "calculateFinalConfidence", sources |-> items,
                        confidence |-> Zero]
       \/ \E k \in 0..ConfSteps :
              pureIn = [fn |-> "determineVerificationStatus", sources |-> <<>>,
                        confidence |-> Rat(k, ConfSteps)]

ApplyCalculateFinalConfidence ==
    /\ pureIn.fn = "calculateFinalConfidence"
    /\ ~pureOut.done
    /\ pureOut' = [done |-> TRUE,
                   confidence |-> calculateFinalConfidence(pureIn.sources),
                   status |-> ""]
    /\ UNCHANGED <<pureIn, veritasVars, memoryVars, coordVars>>

ApplyDetermineVerificationStatus ==
    /\ pureIn.fn = "determineVerificationStatus"
    /\ ~pureOut.done
    /\ pureOut' = [done |-> TRUE, confidence |-> pureIn.confidence,
                   status |-> determineVerificationStatus(pureIn.confidence)]
    /\ UNCHANGED <<pureIn, veritasVars, memoryVars, coordVars>>

NextPure ==
    \/ ApplyCalculateFinalConfidence
    \/ ApplyDetermineVerificationStatus

(***************************************************************************)
(* The memory store (backend/memory/memory-system.js)                      *)
(***************************************************************************)
AgentIds == {"a1", "a2"}
AgentNames == {"Mira", "Bonny"}

Undefined == "<undefined>"

\* the count arguments of getRecentMemories
RecentCounts == 0 .. MaxCount
Text50 == "aaaaaaaaaabbbbbbbbbbccccccccccddddddddddeeeeeeeeee"
Text51 == "aaaaaaaaaabbbbbbbbbbccccccccccddddddddddeeeeeeeeeef"

\* the memory objects handed to addMemory
MemoryInput(type, user, assistant, important) ==
    [type |-> type, user |-> user, assistant |-> assistant, important |-> important]
MemoryInputs ==
    {MemoryInput("conversation", "What is 2+2?", "4", FALSE),
     MemoryInput("conversation", Text50, Text50, FALSE),
     MemoryInput("conversation", Text50, Text51, FALSE),
     MemoryInput("conversation", "What is 2+2?", "4", TRUE),
     MemoryInput("note", Undefined, Undefined, TRUE),
     MemoryInput("note", Undefined, Undefined, FALSE)}

\* (x || '')
OrEmpty(x) == IF x = Undefined THEN "" ELSE x

\* isSignificantMemory with the comparison >= 100 in place of > 100
isSignificantMemoryInclusive(memory) ==
    IF memory.type = "conversation"
    THEN Len(OrEmpty(memory.user)) + Len(OrEmpty(memory.assistant)) >= 100
    ELSE memory.important

isSignificantMemory(memory) ==
    IF memory.type = "conversation"
    THEN Len(OrEmpty(memory.user)) + Len(OrEmpty(memory.assistant)) > 100
    ELSE memory.important

NoBranches == [a \in {} |-> <<>>]

\* no coordinator call has ended yet
NoCall == [op |-> "none"]

NewBranch(agentId, agentName, at) ==
    [agentId |-> agentId, agentName |-> agentName, memories |-> <<>>,
     created |-> at, lastAccessed |-> at,
     stats |-> [totalMemories |-> 0, totalConversations |-> 0]]

\* Map.set and Map.delete
MapSet(map, k, v) == [x \in DOMAIN map \cup {k} |-> IF x = k THEN v ELSE map[x]]
MapDelete(map, k) == [x \in DOMAIN map \ {k} |-> map[x]]

\* object spread {...object, ...extra}
Spread(object, extra) ==
    [k \in DOMAIN object \cup DOMAIN extra |->
        IF k \in DOMAIN extra THEN extra[k] ELSE object[k]]

\* enrichedMemory (memory-system.js:87-94); a memory without a timestamp
\* (absent or falsy, NoTime) gets the current time
EnrichMemory(branch, memory, id, at) ==
    Spread(memory,
           [id |-> id, agentId |-> branch.agentId, agentName |-> branch.agentName,
            truthProtocol |-> TRUE,
            timestamp |-> IF "timestamp" \in DOMAIN memory /\ memory.timestamp # NoTime
                          THEN memory.timestamp
                          ELSE at])

\* AppendToBranch with the record placed by its id, before the records of
\* later ids, in place of the push
AppendInIssueOrder(branch, memory, id, at) ==
    LET earlier == SelectSeq(branch.memories, LAMBDA m : m.id < id)
        later == SelectSeq(branch.memories, LAMBDA m : ~(m.id < id))
    IN [branch EXCEPT
           !.memories = earlier \o <<EnrichMemory(branch, memory, id, at)>> \o later,
           !.lastAccessed = at,
           !.stats = [totalMemories |-> @.totalMemories + 1,
                      totalConversations |->
                          IF memory.type = "conversation"
                          THEN @.totalConversations + 1
                          ELSE @.totalConversations]]

\* memory-system.js:96-102: the enriched record is pushed and the counters
\* are updated
AppendToBranch(branch, memory, id, at) ==
    [branch EXCEPT
        !.memories = Append(@, EnrichMemory(branch, memory, id, at)),
        !.lastAccessed = at,
        !.stats = [totalMemories |-> @.totalMemories + 1,
                   totalConversations |->
                       IF memory.type = "conversation"
                       THEN @.totalConversations + 1
                       ELSE @.totalConversations]]

\* ShareIfSignificant with the back-reference to the source agent left out
ShareIfSignificantAnonymous(shared, enriched, agentId, at) ==
    IF Len(OrEmpty(enriched.user)) + Len(OrEmpty(enriched.assistant)) > 100
           \/ (enriched.type # "conversation" /\ isSignificantMemory(enriched))
    THEN Append(shared, Spread(enriched, [sharedAt |-> at, source |-> Undefined]))
    ELSE shared

\* memory-system.js:105-111
ShareIfSignificant(shared, enriched, agentId, at) ==
    IF isSignificantMemory(enriched)
    THEN Append(shared, Spread(enriched, [sharedAt |-> at, source |-> agentId]))
    ELSE shared

\* what a caller saw of the last completed operation; alone records that
\* no other operation was in flight when it was issued
\* arg and value are the count and the list of a getRecentMemories call
NoOp ==
    [op |-> "none", agent |-> "", result |-> "", seq |-> 0, alone |-> TRUE,
     arg |-> 0, value |-> <<>>]

\* an operation waiting for fs: stage is the fs call it has issued
Pending(op, agent, stage, data, seq, alone) ==
    [op |-> op, agent |-> agent, stage |-> stage, data |-> data, seq |-> seq,
     alone |-> alone]

Completes(o, result) ==
    memLast' = [op |-> o.op, agent |-> o.agent, result |-> result, seq |-> o.seq,
                alone |-> o.alone, arg |-> 0, value |-> <<>>]

\* nothing exported or imported yet
NoExport == [branches |-> <<>>, shared |-> <<>>, exportedAt |-> NoTime,
             truthProtocol |-> TRUE]
NoTransfer == [exported |-> NoExport, ops |-> 0, importOf |-> "none", fresh |-> FALSE]

InitMemory ==
    /\ branches = NoBranches
    /\ sharedMemory = <<>>
    /\ branchFiles = NoBranches
    /\ sharedFile = <<>>
    /\ memIO = {}
    /\ memLast = NoOp
    /\ memSeq = 0
    /\ transfer = NoTransfer

\* createBranch (memory-system.js:42-59) up to the writeFile of saveBranch
CreateBranch(agentId, agentName) ==
    /\ memSeq < MaxMemOps
    /\ memSeq' = memSeq + 1
    /\ branches' = MapSet(branches, agentId, NewBranch(agentId, agentName, memSeq'))
    /\ memIO' = memIO \cup {Pending("createBranch", agentId, "writeBranch",
                                    branches'[agentId], memSeq', memIO = {})}
    /\ UNCHANGED <<sharedMemory, branchFiles, sharedFile, memLast>>
    /\ UNCHANGED <<pureVars, veritasVars, coordVars, transfer>>

\* deleteBranch (memory-system.js:64-75) up to the unlink
DeleteBranch(agentId) ==
    /\ memSeq < MaxMemOps
    /\ memSeq' = memSeq + 1
    /\ branches' = MapDelete(branches, agentId)
    /\ memIO' = memIO \cup {Pending("deleteBranch", agentId, "unlink", <<>>, memSeq',
                                    memIO = {})}
    /\ UNCHANGED <<sharedMemory, branchFiles, sharedFile, memLast>>
    /\ UNCHANGED <<pureVars, veritasVars, coordVars, transfer>>

\* addMemory that creates the missing branch instead of throwing
AddMemoryUnknownAgentCreatesBranch(agentId, memory) ==
    /\ memSeq < MaxMemOps
    /\ agentId \notin DOMAIN branches
    /\ memSeq' = memSeq + 1
    /\ branches' = MapSet(branches, agentId,
                          AppendToBranch(NewBranch(agentId, Undefined, memSeq'),
                                         memory, memSeq', memSeq'))
    /\ memLast' = [op |-> "addMemory", agent |-> agentId, result |-> "ok",
                   seq |-> memSeq', alone |-> memIO = {}, arg |-> 0, value |-> <<>>]
    /\ UNCHANGED <<sharedMemory, branchFiles, sharedFile, memIO>>
    /\ UNCHANGED <<pureVars, veritasVars, coordVars, transfer>>

\* addMemory (memory-system.js:80-84): no branch, the call throws
AddMemoryUnknownAgent(agentId, memory) ==
    /\ memSeq < MaxMemOps
    /\ agentId \notin DOMAIN branches
    /\ memSeq' = memSeq + 1
    /\ memLast' = [op |-> "addMemory", agent |-> agentId,
                   result |-> "Memory branch not found for agent", seq |-> memSeq',
                   alone |-> memIO = {}, arg |-> 0, value |-> <<>>]
    /\ UNCHANGED <<branches, sharedMemory, branchFiles, sharedFile, memIO>>
    /\ UNCHANGED <<pureVars, veritasVars, coordVars, transfer>>

\* addMemory (memory-system.js:86-114) up to the writeFile of saveBranch
AddMemory(agentId, memory) ==
    /\ memSeq < MaxMemOps
    /\ agentId \in DOMAIN branches
    /\ memSeq' = memSeq + 1
    /\ LET branch == AppendToBranch(branches[agentId], memory, memSeq', memSeq')
           enriched == branch.memories[Len(branch.memories)]
       IN /\ branches' = MapSet(branches, agentId, branch)
          /\ sharedMemory' = ShareIfSignificant(sharedMemory, enriched, agentId, memSeq')
          /\ memIO' = memIO \cup {Pending("addMemory", agentId, "writeBranch",
                                          branch, memSeq', memIO = {})}
    /\ UNCHANGED <<branchFiles, sharedFile, memLast>>
    /\ UNCHANGED <<pureVars, veritasVars, coordVars, transfer>>

\* Array.prototype.slice(start) with one argument: a negative start counts
\* from the end, and -0 is 0
slice(array, start) ==
    LET len == Len(array)
        k == IF start < 0
             THEN (IF len + start > 0 THEN len + start ELSE 0)
             ELSE (IF start < len THEN start ELSE len)
    IN SubSeq(array, k + 1, len)

\* getRecentMemories (memory-system.js:136-143)
getRecentMemories(agentId, count) ==
    IF agentId \notin DOMAIN branches
    THEN <<>>
    ELSE slice(branches[agentId].memories, 0 - count)

\* a caller reads the recent records of an agent
GetRecentMemories(agentId, count) ==
    /\ memLast' = [op |-> "getRecentMemories", agent |-> agentId, result |-> "ok",
                   seq |-> memSeq, alone |-> memIO = {}, arg |-> count,
                   value |-> getRecentMemories(agentId, count)]
    /\ UNCHANGED <<branches, sharedMemory, branchFiles, sharedFile, memIO, memSeq>>
    /\ UNCHANGED <<pureVars, veritasVars, coordVars, transfer>>

\* the writeFile of saveBranch settles: createBranch is done, addMemory goes
\* on to saveSharedMemory (memory-system.js:115, 284-287)
BranchWritten(o) ==
    /\ o \in memIO
    /\ o.stage = "writeBranch"
    /\ branchFiles' = MapSet(branchFiles, o.agent, o.data)
    /\ IF o.op = "addMemory"
       THEN /\ memIO' = (memIO \ {o})
                            \cup {Pending(o.op, o.agent, "writeShared", sharedMemory, o.seq,
                                          o.alone)}
            /\ UNCHANGED memLast
       ELSE /\ memIO' = memIO \ {o}
            /\ Completes(o, "ok")
    /\ UNCHANGED <<branches, sharedMemory, sharedFile, memSeq>>
    /\ UNCHANGED <<pureVars, veritasVars, coordVars, transfer>>

\* the writeFile of saveSharedMemory settles and addMemory returns
SharedWritten(o) ==
    /\ o \in memIO
    /\ o.stage = "writeShared"
    /\ sharedFile' = o.data
    /\ memIO' = memIO \ {o}
    /\ Completes(o, "ok")
    /\ UNCHANGED <<branches, sharedMemory, branchFiles, memSeq>>
    /\ UNCHANGED <<pureVars, veritasVars, coordVars, transfer>>

\* the unlink settles (an absent file is ignored) and deleteBranch returns
Unlinked(o) ==
    /\ o \in memIO
    /\ o.stage = "unlink"
    /\ branchFiles' = MapDelete(branchFiles, o.agent)
    /\ memIO' = memIO \ {o}
    /\ Completes(o, "ok")
    /\ UNCHANGED <<branches, sharedMemory, sharedFile, memSeq>>
    /\ UNCHANGED <<pureVars, veritasVars, coordVars, transfer>>

NextMemory ==
    \/ \E a \in AgentIds, n \in AgentNames : CreateBranch(a, n)
    \/ \E a \in AgentIds : DeleteBranch(a)
    \/ \E a \in AgentIds, m \in MemoryInputs : AddMemoryUnknownAgent(a, m)
    \/ \E a \in AgentIds, m \in MemoryInputs : AddMemory(a, m)
    \/ \E o \in memIO : BranchWritten(o)
    \/ \E o \in memIO : SharedWritten(o)
    \/ \E o \in memIO : Unlinked(o)

\* a branch after createBranch and k addMemory calls
RECURSIVE BranchWithRecords(_, _)
BranchWithRecords(agentId, k) ==
    IF k = 0
    THEN NewBranch(agentId, "Mira", 1)
    ELSE AppendToBranch(BranchWithRecords(agentId, k - 1),
                        MemoryInput("conversation", "What is 2+2?", "4", FALSE),
                        k + 1, k + 1)

\* the stores getRecentMemories is applied to: each agent has no branch or
\* a branch of up to MaxRecords records
RecallStores ==
    UNION {[S -> 0 .. MaxRecords] : S \in SUBSET AgentIds}

InitRecall ==
    /\ \E f \in RecallStores :
           branches = [a \in DOMAIN f |-> BranchWithRecords(a, f[a])]
    /\ sharedMemory = <<>>
    /\ branchFiles = branches
    /\ sharedFile = <<>>
    /\ memIO = {}
    /\ memLast = NoOp
    /\ memSeq = 0
    /\ transfer = NoTransfer

NextRecall ==
    \E a \in AgentIds, c \in RecentCounts : GetRecentMemories(a, c)

(***************************************************************************)
(* Memory sync across platforms (part_011:557-675)                         *)
(***************************************************************************)
\* A string of a snapshot is modelled by its identity and its length.
SnapshotItem(id, size) == [id |-> id, size |-> size]

\* JSON.stringify(...).length of a string without escapes, of an array of
\* strings and of an object of strings
StringLength(item) == item.size + 2

RECURSIVE SumOfLengths(_)
SumOfLengths(array) ==
    IF array = <<>> THEN 0
    ELSE StringLength(Head(array)) + SumOfLengths(Tail(array))

ArrayLength(array) ==
    2 + SumOfLengths(array) + (IF Len(array) > 0 THEN Len(array) - 1 ELSE 0)

RECURSIVE SumOfMembers(_, _)
SumOfMembers(object, keys) ==
    IF keys = {} THEN 0
    ELSE LET k == CHOOSE x \in keys : TRUE
         IN (Len(k) + 3 + StringLength(object[k])) + SumOfMembers(object, keys \ {k})

ObjectLength(object) ==
    2 + SumOfMembers(object, DOMAIN object)
      + (IF DOMAIN object # {} THEN Cardinality(DOMAIN object) - 1 ELSE 0)

ListKeys == {"verified_facts", "recent_conversations", "key_insights"}

\* JSON.stringify(memoryData).length for a snapshot object
RECURSIVE SumOfSections(_, _)
SumOfSections(memoryData, keys) ==
    IF keys = {} THEN 0
    ELSE LET k == CHOOSE x \in keys : TRUE
         IN (Len(k) + 3 + (IF k \in ListKeys
                           THEN ArrayLength(memoryData[k])
                           ELSE ObjectLength(memoryData[k])))
            + SumOfSections(memoryData, keys \ {k})

JSONLength(memoryData) ==
    2 + SumOfSections(memoryData, DOMAIN memoryData)
      + (IF DOMAIN memoryData # {} THEN Cardinality(DOMAIN memoryData) - 1 ELSE 0)

\* array?.slice(0, end) || []  for a key of the snapshot
SliceOrEmpty(memoryData, key, end) ==
    IF key \in DOMAIN memoryData
    THEN SubSeq(memoryData[key], 1,
                IF Len(memoryData[key]) < end THEN Len(memoryData[key]) ELSE end)
    ELSE <<>>

\* prepareSyncData (part_011:629-645) for a snapshot object
prepareSyncData(memoryData, contextWindow) ==
    IF JSONLength(memoryData) <= contextWindow
    THEN memoryData
    ELSE [verified_facts |-> SliceOrEmpty(memoryData, "verified_facts", 5),
          recent_conversations |-> SliceOrEmpty(memoryData, "recent_conversations", 3),
          key_insights |-> SliceOrEmpty(memoryData, "key_insights", 3),
          agent_preferences |-> IF "agent_preferences" \in DOMAIN memoryData
                                THEN memoryData.agent_preferences
                                ELSE [k \in {} |-> <<>>]]

\* platformConfigs (part_011:590-606)
platformConfigs ==
    [chatgpt |-> [method |-> "browser_automation", contextWindow |-> 4000],
     genspark |-> [method |-> "browser_automation", contextWindow |-> 8000],
     kindroid |-> [method |-> "api_integration", contextWindow |-> 2000]]

\* what syncMemoryAcrossPlatforms records for one platform: the value
\* syncToPlatform returns, or the error it throws (part_011:563-571,
\* 587-624).  memoryData is <<m>> for the snapshot object m and <<>> for
\* undefined; JSON.stringify(undefined) is undefined, so prepareSyncData
\* throws on reading its length.
syncToPlatform(platform, memoryData, at) ==
    IF platform \notin DOMAIN platformConfigs
    THEN [status |-> "error", error |-> "Unsupported platform"]
    ELSE IF memoryData = <<>>
    THEN [status |-> "error", error |-> "TypeError"]
    ELSE [status |-> "success", method |-> platformConfigs[platform].method,
          synced_at |-> at,
          data_size |-> JSONLength(prepareSyncData(memoryData[1],
                                       platformConfigs[platform].contextWindow))]

\* --- the calls drawn ---
ItemSizes == {10, 350, 3000}
Facts ==
    {[i \in 1 .. n |-> SnapshotItem(i, s)] : n \in 0 .. MaxFacts, s \in ItemSizes}
FourShort == [i \in 1 .. 4 |-> SnapshotItem(i, 10)]
Preferences == [mene |-> SnapshotItem(1, 20)]

\* the snapshots: verified_facts always, each other key present or absent
Snapshots ==
    {Spread([verified_facts |-> f],
            Spread(IF c THEN [recent_conversations |-> FourShort] ELSE [k \in {} |-> <<>>],
                   Spread(IF i THEN [key_insights |-> FourShort] ELSE [k \in {} |-> <<>>],
                          IF p THEN [agent_preferences |-> Preferences]
                          ELSE [k \in {} |-> <<>>]))) :
        f \in Facts, c \in BOOLEAN, i \in BOOLEAN, p \in BOOLEAN}

ContextWindows == {platformConfigs[p].contextWindow : p \in DOMAIN platformConfigs}

\* the snapshot of a sync request: a small one, one above every budget, or
\* none at all (a request body without memoryData, server.js:397-400)
SyncSnapshots ==
    {<<[verified_facts |-> [i \in 1 .. 2 |-> SnapshotItem(i, 10)]]>>,
     <<[verified_facts |-> [i \in 1 .. 3 |-> SnapshotItem(i, 3000)],
        key_insights |-> FourShort]>>,
     <<>>}

PlatformLists ==
    {<<"chatgpt", "genspark", "kindroid">>, <<"chatgpt", "myspace", "kindroid">>,
     <<"myspace">>, <<"kindroid", "chatgpt">>, <<>>}

InitSync ==
    /\ pureOut = NoResult
    /\ \/ \E m \in Snapshots, w \in ContextWindows :
              pureIn = [fn |-> "prepareSyncData", memoryData |-> <<m>>,
                        contextWindow |-> w, platforms |-> <<>>]
       \/ \E s \in SyncSnapshots, ps \in PlatformLists :
              pureIn = [fn |-> "syncMemoryAcrossPlatforms", memoryData |-> s,
                        contextWindow |-> 0, platforms |-> ps]

\* prepareSyncData applied to the drawn snapshot and budget
ApplyPrepareSyncData ==
    /\ pureIn.fn = "prepareSyncData"
    /\ ~pureOut.done
    /\ pureOut' = [done |-> TRUE, threw |-> FALSE,
                   value |-> prepareSyncData(pureIn.memoryData[1], pureIn.contextWindow)]
    /\ UNCHANGED <<pureIn, veritasVars, memoryVars, coordVars>>

\* syncMemoryAcrossPlatforms (part_011:557-582): one entry of syncResults
\* per platform of the list, then the push onto syncHistory, whose
\* JSON.stringify(memoryData).length throws when memoryData is undefined
SyncMemoryAcrossPlatforms ==
    /\ pureIn.fn = "syncMemoryAcrossPlatforms"
    /\ ~pureOut.done
    /\ LET memoryData == pureIn.memoryData
           platforms == pureIn.platforms
           syncResults ==
               [p \in {platforms[i] : i \in DOMAIN platforms} |->
                   syncToPlatform(p, memoryData, now)]
       IN IF memoryData = <<>>
          THEN /\ pureOut' = [done |-> TRUE, threw |-> TRUE, value |-> syncResults]
               /\ UNCHANGED syncHistory
          ELSE /\ pureOut' = [done |-> TRUE, threw |-> FALSE, value |-> syncResults]
               /\ syncHistory' = Append(syncHistory,
                                        [timestamp |-> now, platforms |-> platforms,
                                         results |-> syncResults,
                                         memorySize |-> JSONLength(memoryData[1])])
    /\ UNCHANGED <<initStage, truthFile, verificationSources, syncDatabase,
                   truthDatabase, calls, returned, now>>
    /\ UNCHANGED <<pureIn, memoryVars, coordVars>>

NextSync ==
    \/ ApplyPrepareSyncData
    \/ SyncMemoryAcrossPlatforms

(***************************************************************************)
(* exportAllMemories and importFromMeneLTM                                 *)
(***************************************************************************)
\* Array.from(map.values()): a Map iterates in insertion order, which the
\* model does not keep; the values are listed in the order of IdOrder
IdOrder == <<"a0", "a1", "a2", "imported">>
MapKeys(map) == SelectSeq(IdOrder, LAMBDA k : k \in DOMAIN map)
MapValues(map) == [i \in DOMAIN MapKeys(map) |-> map[MapKeys(map)[i]]]

\* exportAllMemories (memory-system.js:306-315)
exportAllMemories(at) ==
    [branches |-> MapValues(branches), shared |-> sharedMemory, exportedAt |-> at,
     truthProtocol |-> TRUE]

\* MeneLTM data handed to importFromMeneLTM
Message(user, assistant, timestamp) ==
    [user |-> user, assistant |-> assistant, timestamp |-> timestamp]
Conversation(agent, agentName, messages) ==
    [agent |-> agent, agentName |-> agentName, messages |-> messages]
MeneLTMData ==
    {[conversations |-> <<Conversation(Undefined, Undefined,
                                       <<Message("What is 2+2?", "4", 7)>>)>>],
     [conversations |-> <<Conversation("a1", "Mira",
                                       <<Message(Text50, Text51, NoTime)>>)>>]}

\* importFromMeneLTM (memory-system.js:320-344) from the point where it is
\* entered or resumed to its next fs call, its return or its throw: msgs
\* are the messages of the current conversation (of agentId) still to add,
\* rest the conversations still to import
RECURSIVE ImportAdvance(_, _, _, _, _, _)
ImportAdvance(br, sh, agentId, msgs, rest, at) ==
    IF msgs # <<>>
    THEN IF agentId \notin DOMAIN br
         THEN [outcome |-> "throw", branches |-> br, sharedMemory |-> sh,
               agent |-> agentId, stage |-> "none", msgs |-> <<>>, rest |-> <<>>]
         ELSE LET memory == [type |-> "conversation", user |-> Head(msgs).user,
                             assistant |-> Head(msgs).assistant,
                             timestamp |-> Head(msgs).timestamp]
                  branch == AppendToBranch(br[agentId], memory, at, at)
                  enriched == branch.memories[Len(branch.memories)]
              IN [outcome |-> "await", branches |-> MapSet(br, agentId, branch),
                  sharedMemory |-> ShareIfSignificant(sh, enriched, agentId, at),
                  agent |-> agentId, stage |-> "writeBranch", msgs |-> Tail(msgs),
                  rest |-> rest]
    ELSE IF rest # <<>>
    THEN LET conv == Head(rest)
             id == IF conv.agent = Undefined THEN "imported" ELSE conv.agent
             name == IF conv.agentName = Undefined THEN "Imported Agent"
                     ELSE conv.agentName
         IN IF id \notin DOMAIN br
            THEN [outcome |-> "await",
                  branches |-> MapSet(br, id, NewBranch(id, name, at)),
                  sharedMemory |-> sh, agent |-> id, stage |-> "writeNewBranch",
                  msgs |-> conv.messages, rest |-> Tail(rest)]
            ELSE ImportAdvance(br, sh, id, conv.messages, Tail(rest), at)
    ELSE [outcome |-> "done", branches |-> br, sharedMemory |-> sh,
          agent |-> agentId, stage |-> "none", msgs |-> <<>>, rest |-> <<>>]

\* an import waiting for fs
PendingImport(agent, stage, data, seq, alone, msgs, rest) ==
    [op |-> "importFromMeneLTM", agent |-> agent, stage |-> stage, data |-> data,
     seq |-> seq, alone |-> alone, msgs |-> msgs, rest |-> rest]

\* the store and the in-flight import o after the advance r
ImportProceeds(o, r) ==
    /\ branches' = r.branches
    /\ sharedMemory' = r.sharedMemory
    /\ IF r.outcome = "await"
       THEN /\ memIO' = (memIO \ {o})
                            \cup {PendingImport(r.agent, r.stage, r.branches[r.agent],
                                                o.seq, o.alone, r.msgs, r.rest)}
            /\ UNCHANGED memLast
       ELSE /\ memIO' = memIO \ {o}
            /\ memLast' = [op |-> "importFromMeneLTM", agent |-> r.agent,
                           result |-> IF r.outcome = "done" THEN "ok"
                                      ELSE "Memory branch not found for agent",
                           seq |-> o.seq, alone |-> o.alone, arg |-> 0, value |-> <<>>]

\* a caller exports the store
ExportAllMemories ==
    /\ transfer.ops < MaxTransferOps
    /\ memSeq' = memSeq + 1
    /\ transfer' = [transfer EXCEPT !.exported = exportAllMemories(memSeq'),
                                    !.ops = @ + 1]
    /\ UNCHANGED <<branches, sharedMemory, branchFiles, sharedFile, memIO, memLast>>
    /\ UNCHANGED <<pureVars, veritasVars, coordVars>>

\* new MemorySystem() on an empty memory directory (memory-system.js:11-16):
\* from here on the store variables are those of the new instance
NewMemorySystem ==
    /\ transfer.ops < MaxTransferOps
    /\ memIO = {}
    /\ memSeq' = memSeq + 1
    /\ branches' = NoBranches
    /\ sharedMemory' = <<>>
    /\ branchFiles' = NoBranches
    /\ sharedFile' = <<>>
    /\ memLast' = NoOp
    /\ transfer' = [transfer EXCEPT !.ops = @ + 1, !.importOf = "none", !.fresh = FALSE]
    /\ UNCHANGED memIO
    /\ UNCHANGED <<pureVars, veritasVars, coordVars>>

\* importFromMeneLTM(data) up to its first fs call
ImportFromMeneLTM(data, kind) ==
    /\ transfer.ops < MaxTransferOps
    /\ memSeq' = memSeq + 1
    /\ transfer' = [transfer EXCEPT !.ops = @ + 1, !.importOf = kind,
                                    !.fresh = (branches = NoBranches
                                               /\ sharedMemory = <<>> /\ memIO = {})]
    /\ LET o == PendingImport("", "none", <<>>, memSeq', memIO = {}, <<>>, <<>>)
           convs == IF "conversations" \in DOMAIN data THEN data.conversations ELSE <<>>
       IN ImportProceeds(o, ImportAdvance(branches, sharedMemory, "", <<>>, convs, memSeq'))
    /\ UNCHANGED <<branchFiles, sharedFile>>
    /\ UNCHANGED <<pureVars, veritasVars, coordVars>>

\* importFromMeneLTM is given the result of exportAllMemories
ImportExported ==
    /\ transfer.exported # NoExport
    /\ ImportFromMeneLTM(transfer.exported, "export")

\* the writeFile of the createBranch call of an import settles and the
\* import goes on
ImportBranchCreated(o) ==
    /\ o \in memIO
    /\ o.op = "importFromMeneLTM"
    /\ o.stage = "writeNewBranch"
    /\ memSeq' = memSeq + 1
    /\ branchFiles' = MapSet(branchFiles, o.agent, o.data)
    /\ ImportProceeds(o, ImportAdvance(branches, sharedMemory, o.agent, o.msgs, o.rest,
                                       memSeq'))
    /\ UNCHANGED <<sharedFile, transfer>>
    /\ UNCHANGED <<pureVars, veritasVars, coordVars>>

\* the writeFile of saveBranch in the addMemory call of an import settles;
\* addMemory goes on to saveSharedMemory
ImportBranchWritten(o) ==
    /\ o \in memIO
    /\ o.op = "importFromMeneLTM"
    /\ o.stage = "writeBranch"
    /\ branchFiles' = MapSet(branchFiles, o.agent, o.data)
    /\ memIO' = (memIO \ {o})
                    \cup {PendingImport(o.agent, "writeShared", sharedMemory, o.seq,
                                        o.alone, o.msgs, o.rest)}
    /\ UNCHANGED <<branches, sharedMemory, sharedFile, memLast, memSeq, transfer>>
    /\ UNCHANGED <<pureVars, veritasVars, coordVars>>

\* the writeFile of saveSharedMemory settles and the import goes on
ImportSharedWritten(o) ==
    /\ o \in memIO
    /\ o.op = "importFromMeneLTM"
    /\ o.stage = "writeShared"
    /\ memSeq' = memSeq + 1
    /\ sharedFile' = o.data
    /\ ImportProceeds(o, ImportAdvance(branches, sharedMemory, o.agent, o.msgs, o.rest,
                                       memSeq'))
    /\ UNCHANGED <<branchFiles, transfer>>
    /\ UNCHANGED <<pureVars, veritasVars, coordVars>>

InitTransfer == InitRecall

NextTransfer ==
    \/ ExportAllMemories
    \/ NewMemorySystem
    \/ \E d \in MeneLTMData : ImportFromMeneLTM(d, "conversations")
    \/ ImportExported
    \/ \E o \in memIO : ImportBranchCreated(o)
    \/ \E o \in memIO : ImportBranchWritten(o)
    \/ \E o \in memIO : ImportSharedWritten(o)

(***************************************************************************)
(* The agent coordinator and the server's message handler                  *)
(***************************************************************************)
\* uuidv4(): the id drawn by the k-th call issued; no id is drawn twice
Uuids == <<"a1", "a2", "a3", "a4", "a5", "a6">>
uuidv4(k) == Uuids[k]

\* an agent of an earlier run of the server, whose branch file is on disk
PersistedIds == {"a0"}
PortalIds == {Uuids[k] : k \in 1 .. MaxPortalOps} \cup PersistedIds

Services == {"local"}
QueryMessages == {"What is 2+2?"}
\* what the model backend answers
Responses == {"4", Text50 \o Text51}

NoAgents == [a \in {} |-> <<>>]

\* the agent object of createAgent (agent-coordinator.js:29-46)
NewAgent(agentId, name, service, at) ==
    [id |-> agentId, name |-> name, service |-> service, created |-> at,
     stats |-> [totalQueries |-> 0, avgResponseTime |-> Zero]]

\* Array.from(this.agents.values()): the agents in insertion order, which
\* is the order of their creation
RECURSIVE InCreationOrder(_)
InCreationOrder(S) ==
    IF S = {}
    THEN <<>>
    ELSE LET first == CHOOSE x \in S : \A y \in S : agents[x].created <= agents[y].created
         IN <<first>> \o InCreationOrder(S \ {first})
getAllAgents == InCreationOrder(DOMAIN agents)

\* getRelevantSharedMemories (memory-system.js:155-186): the queries of the
\* model have the keywords of their own text, which a shared entry holds
\* when its request is that text; the entries found are ordered by
\* timestamp, latest first, and cut to limit
Relevant(query) ==
    SelectSeq(sharedMemory, LAMBDA e : e.type = "conversation" /\ e.user = query)
Reverse(seq) == [i \in DOMAIN seq |-> seq[Len(seq) + 1 - i]]
getRelevantSharedMemories(query, limit) ==
    LET found == Reverse(Relevant(query))
    IN SubSeq(found, 1, IF Len(found) < limit THEN Len(found) ELSE limit)

\* cogniVault.search (memory-system.js:423-468) with the CogniVault service
\* not running: localSearch over this.documents.  A document scores when
\* its content holds a term of the query, which the documents of the model
\* do when their content is the query's text; equal scores keep the order
\* of the index, and the list is cut to limit
cogniVaultSearch(query, limit) ==
    LET found == SelectSeq(documents, LAMBDA doc : doc.content = query)
    IN SubSeq(found, 1, IF Len(found) < limit THEN Len(found) ELSE limit)

\* `[${result.type}] ${result.filename}: ${result.content.substring(0, 300)}...`
KnowledgeLine(result) == <<result.type, result.filename, result.content>>

\* the lines gatherContext pushes for the agent's own records
RECURSIVE OwnMemoryLines(_)
OwnMemoryLines(mems) ==
    IF mems = <<>>
    THEN <<>>
    ELSE (IF Head(mems).type = "conversation"
          THEN <<<<"User: ", Head(mems).user>>, <<"You: ", Head(mems).assistant>>>>
          ELSE <<>>)
         \o OwnMemoryLines(Tail(mems))

\* `[${mem.agentName}]: ${mem.summary || mem.content}`: shared entries have
\* neither field
SharedLine(mem) ==
    <<mem.agentName,
      IF "summary" \in DOMAIN mem THEN mem.summary
      ELSE IF "content" \in DOMAIN mem THEN mem.content
      ELSE Undefined>>

\* gatherContext (agent-coordinator.js:173-211): contextParts, whose join
\* is the empty string exactly when there are no parts
gatherContext(agentId, query) ==
    LET agentMemories == getRecentMemories(agentId, 5)
        sharedMemories == getRelevantSharedMemories(query, 3)
        cvResults == cogniVaultSearch(query, 3)
    IN (IF Len(agentMemories) > 0
        THEN <<<<"=== YOUR RECENT MEMORY ===">>>> \o OwnMemoryLines(agentMemories)
        ELSE <<>>)
       \o (IF Len(sharedMemories) > 0
           THEN <<<<"=== SHARED KNOWLEDGE (Other Agents) ===">>>>
                    \o [i \in DOMAIN sharedMemories |-> SharedLine(sharedMemories[i])]
           ELSE <<>>)
       \o (IF Len(cvResults) > 0
           THEN <<<<"=== KNOWLEDGE BASE (CogniVault) ===">>>>
                    \o [i \in DOMAIN cvResults |-> KnowledgeLine(cvResults[i])]
           ELSE <<>>)

\* context || null
ContextOrNull(context) == [null |-> context = <<>>, parts |-> context]

\* the state of a broadcast carried by the query it is waiting for
NoBroadcast ==
    [active |-> FALSE, targets |-> <<>>, idx |-> 0, responses |-> <<>>, seq |-> 0]

\* query() from its entry to its backend call (agent-coordinator.js:95-134)
StartQuery(agentId, message, includeContext, bc, seq, at) ==
    [op |-> "query", agent |-> agentId, agentName |-> agents[agentId].name,
     message |-> message, includeContext |-> includeContext,
     context |-> IF includeContext THEN gatherContext(agentId, message) ELSE <<>>,
     startTime |-> at, invoked |-> 1, bc |-> bc, seq |-> seq]

\* the memory object of query() with the request and the response exchanged
QueryMemorySwapped(call, response, at) ==
    [type |-> "conversation", user |-> response, assistant |-> call.message,
     context |-> ContextOrNull(call.context), timestamp |-> at]

\* the memory object query() hands to addMemory (agent-coordinator.js:140-146)
QueryMemory(call, response, at) ==
    [type |-> "conversation", user |-> call.message, assistant |-> response,
     context |-> ContextOrNull(call.context), timestamp |-> at]

\* the value query() returns (agent-coordinator.js:154-162)
QueryResult(call, response, at) ==
    [success |-> TRUE, response |-> response, context |-> ContextOrNull(call.context),
     agentId |-> call.agent, agentName |-> call.agentName,
     responseTime |-> at - call.startTime, timestamp |-> at]

\* agent.stats after a query that took responseTime
\* (agent-coordinator.js:150-152)
UpdateStats(stats, responseTime) ==
    LET n == stats.totalQueries + 1
    IN [totalQueries |-> n,
        avgResponseTime |->
            RDiv(RAdd(RMul(stats.avgResponseTime, Rat(n - 1, 1)), Rat(responseTime, 1)),
                 Rat(n, 1))]

\* how the end of a query reaches its caller: a direct caller gets the
\* result or the error; the broadcast loop of send_message
\* (backend/server.js:232-251) pushes the response and queries the next
\* agent, or leaves through its catch on the first error.  next is the call
\* now waiting for the backend, if any; last is what the caller was told.
Conclude(call, success, result, error, at) ==
    IF ~call.bc.active
    THEN [next |-> {},
          last |-> [op |-> "query", agent |-> call.agent, success |-> success,
                    result |-> result, error |-> error, invoked |-> call.invoked,
                    seq |-> call.seq]]
    ELSE LET bc == call.bc
             responses == IF success THEN Append(bc.responses, result) ELSE bc.responses
             told(ok, err, upto) ==
                 [op |-> "broadcast", success |-> ok, error |-> err,
                  targets |-> bc.targets, attempted |-> SubSeq(bc.targets, 1, upto),
                  responses |-> responses, seq |-> bc.seq]
         IN IF ~success
            THEN [next |-> {}, last |-> told(FALSE, error, bc.idx)]
            ELSE IF bc.idx = Len(bc.targets)
            THEN [next |-> {}, last |-> told(TRUE, "", bc.idx)]
            ELSE IF bc.targets[bc.idx + 1] \notin DOMAIN agents
            THEN [next |-> {}, last |-> told(FALSE, "Agent not found", bc.idx + 1)]
            ELSE [next |-> {StartQuery(bc.targets[bc.idx + 1], call.message,
                                       call.includeContext,
                                       [bc EXCEPT !.idx = @ + 1, !.responses = responses],
                                       call.seq, at)},
                  last |-> coLast]

\* a query waiting for fs inside addMemory
PendingQuery(call, stage, data, response) ==
    [op |-> "query", agent |-> call.agent, stage |-> stage, data |-> data,
     seq |-> call.seq, call |-> call, response |-> response]

\* the disks the server may start on: empty, or with the branch file of an
\* agent of an earlier run
PersistedDisks ==
    {NoBranches} \cup {[a \in {p} |-> BranchWithRecords(p, 1)] : p \in PersistedIds}

InitPortal ==
    /\ serverStage = "starting"
    /\ agents = NoAgents
    /\ coIO = {}
    /\ coLast = NoCall
    /\ documents = <<>>
    /\ branches = NoBranches
    /\ sharedMemory = <<>>
    /\ branchFiles \in PersistedDisks
    /\ sharedFile = <<>>
    /\ memIO = {}
    /\ memLast = NoOp
    /\ memSeq = 0
    /\ transfer = NoTransfer

\* initializeServer (backend/server.js:375-411): memorySystem.initialize()
\* loads the branch files and shared.json (memory-system.js:21-37,
\* 264-301), then the server listens
InitializeServer ==
    /\ serverStage = "starting"
    /\ serverStage' = "listening"
    /\ branches' = [a \in {branchFiles[f].agentId : f \in DOMAIN branchFiles} |->
                       branchFiles[CHOOSE f \in DOMAIN branchFiles :
                                       branchFiles[f].agentId = a]]
    /\ sharedMemory' = sharedFile
    /\ UNCHANGED <<agents, coIO, coLast>>
    /\ UNCHANGED <<branchFiles, sharedFile, memIO, memLast, memSeq, transfer>>
    /\ UNCHANGED <<pureVars, veritasVars, documents>>

\* createAgent (agent-coordinator.js:26-56) up to the writeFile of
\* createBranch
CreateAgent(name, service) ==
    /\ serverStage = "listening"
    /\ memSeq < MaxPortalOps
    /\ memSeq' = memSeq + 1
    /\ LET agentId == uuidv4(memSeq')
       IN /\ agents' = MapSet(agents, agentId, NewAgent(agentId, name, service, memSeq'))
          /\ branches' = MapSet(branches, agentId, NewBranch(agentId, name, memSeq'))
          /\ memIO' = memIO \cup {[op |-> "createAgent", agent |-> agentId,
                                    stage |-> "writeBranch", data |-> branches'[agentId],
                                    seq |-> memSeq']}
    /\ UNCHANGED <<serverStage, coIO, coLast>>
    /\ UNCHANGED <<sharedMemory, branchFiles, sharedFile, memLast, transfer>>
    /\ UNCHANGED <<pureVars, veritasVars, documents>>

\* the writeFile of createBranch settles and createAgent returns the agent
AgentBranchWritten(o) ==
    /\ o \in memIO
    /\ o.op = "createAgent"
    /\ branchFiles' = MapSet(branchFiles, o.agent, o.data)
    /\ memIO' = memIO \ {o}
    /\ coLast' = [op |-> "createAgent", agent |-> o.agent, success |-> TRUE,
                  error |-> "", seq |-> o.seq]
    /\ UNCHANGED <<serverStage, agents, coIO>>
    /\ UNCHANGED <<branches, sharedMemory, sharedFile, memLast, memSeq, transfer>>
    /\ UNCHANGED <<pureVars, veritasVars, documents>>

\* deleteAgent (agent-coordinator.js:61-65): no such agent
DeleteAgentUnknown(agentId) ==
    /\ serverStage = "listening"
    /\ memSeq < MaxPortalOps
    /\ agentId \notin DOMAIN agents
    /\ memSeq' = memSeq + 1
    /\ coLast' = [op |-> "deleteAgent", agent |-> agentId, success |-> FALSE,
                  error |-> "Agent not found", seq |-> memSeq']
    /\ UNCHANGED <<serverStage, agents, coIO>>
    /\ UNCHANGED <<branches, sharedMemory, branchFiles, sharedFile, memIO, memLast,
                   transfer>>
    /\ UNCHANGED <<pureVars, veritasVars, documents>>

\* deleteAgent (agent-coordinator.js:61-71) up to the unlink of deleteBranch
DeleteAgent(agentId) ==
    /\ serverStage = "listening"
    /\ memSeq < MaxPortalOps
    /\ agentId \in DOMAIN agents
    /\ memSeq' = memSeq + 1
    /\ agents' = MapDelete(agents, agentId)
    /\ branches' = MapDelete(branches, agentId)
    /\ memIO' = memIO \cup {[op |-> "deleteAgent", agent |-> agentId, stage |-> "unlink",
                              data |-> <<>>, seq |-> memSeq']}
    /\ UNCHANGED <<serverStage, coIO, coLast>>
    /\ UNCHANGED <<sharedMemory, branchFiles, sharedFile, memLast, transfer>>
    /\ UNCHANGED <<pureVars, veritasVars, documents>>

\* the unlink of deleteBranch settles and deleteAgent returns
AgentUnlinked(o) ==
    /\ o \in memIO
    /\ o.op = "deleteAgent"
    /\ branchFiles' = MapDelete(branchFiles, o.agent)
    /\ memIO' = memIO \ {o}
    /\ coLast' = [op |-> "deleteAgent", agent |-> o.agent, success |-> TRUE,
                  error |-> "", seq |-> o.seq]
    /\ UNCHANGED <<serverStage, agents, coIO>>
    /\ UNCHANGED <<branches, sharedMemory, sharedFile, memLast, memSeq, transfer>>
    /\ UNCHANGED <<pureVars, veritasVars, documents>>

\* query (agent-coordinator.js:95-99): no such agent
QueryUnknownAgent(agentId, message) ==
    /\ serverStage = "listening"
    /\ memSeq < MaxPortalOps
    /\ agentId \notin DOMAIN agents
    /\ memSeq' = memSeq + 1
    /\ coLast' = [op |-> "query", agent |-> agentId, success |-> FALSE,
                  result |-> <<>>, error |-> "Agent not found", invoked |-> 0,
                  seq |-> memSeq']
    /\ UNCHANGED <<serverStage, agents, coIO>>
    /\ UNCHANGED <<branches, sharedMemory, branchFiles, sharedFile, memIO, memLast,
                   transfer>>
    /\ UNCHANGED <<pureVars, veritasVars, documents>>

\* query (agent-coordinator.js:95-134) up to the call of the model backend
Query(agentId, message, includeContext) ==
    /\ serverStage = "listening"
    /\ memSeq < MaxPortalOps
    /\ agentId \in DOMAIN agents
    /\ memSeq' = memSeq + 1
    /\ coIO' = coIO \cup {StartQuery(agentId, message, includeContext, NoBroadcast,
                                      memSeq', memSeq')}
    /\ UNCHANGED <<serverStage, agents, coLast>>
    /\ UNCHANGED <<branches, sharedMemory, branchFiles, sharedFile, memIO, memLast,
                   transfer>>
    /\ UNCHANGED <<pureVars, veritasVars, documents>>

\* send_message with broadcastToAll (backend/server.js:225-251) up to the
\* backend call of the first agent's query
Broadcast(message, includeContext) ==
    /\ serverStage = "listening"
    /\ memSeq < MaxPortalOps
    /\ memSeq' = memSeq + 1
    /\ LET targets == getAllAgents
       IN IF targets = <<>>
          THEN /\ coLast' = [op |-> "broadcast", success |-> TRUE, error |-> "",
                             targets |-> <<>>, attempted |-> <<>>, responses |-> <<>>,
                             seq |-> memSeq']
               /\ UNCHANGED coIO
          ELSE /\ coIO' = coIO \cup
                       {StartQuery(targets[1], message, includeContext,
                                   [active |-> TRUE, targets |-> targets, idx |-> 1,
                                    responses |-> <<>>, seq |-> memSeq'],
                                   memSeq', memSeq')}
               /\ UNCHANGED coLast
    /\ UNCHANGED <<serverStage, agents>>
    /\ UNCHANGED <<branches, sharedMemory, branchFiles, sharedFile, memIO, memLast,
                   transfer>>
    /\ UNCHANGED <<pureVars, veritasVars, documents>>

\* a failed backend call that is counted as a query all the same
BackendFailsCounted(q) ==
    /\ q \in coIO
    /\ LET c == Conclude(q, FALSE, <<>>, "UpstreamError", memSeq)
       IN /\ coIO' = (coIO \ {q}) \cup c.next
          /\ coLast' = c.last
    /\ agents' = IF q.agent \in DOMAIN agents
                 THEN [agents EXCEPT ![q.agent].stats = UpdateStats(@, memSeq - q.startTime)]
                 ELSE agents
    /\ UNCHANGED serverStage
    /\ UNCHANGED <<branches, sharedMemory, branchFiles, sharedFile, memIO, memLast,
                   memSeq, transfer>>
    /\ UNCHANGED <<pureVars, veritasVars, documents>>

\* the backend call of a query rejects: the catch of query() rethrows
\* (agent-coordinator.js:164-167)
BackendFails(q) ==
    /\ q \in coIO
    /\ LET c == Conclude(q, FALSE, <<>>, "UpstreamError", memSeq)
       IN /\ coIO' = (coIO \ {q}) \cup c.next
          /\ coLast' = c.last
    /\ UNCHANGED <<serverStage, agents>>
    /\ UNCHANGED <<branches, sharedMemory, branchFiles, sharedFile, memIO, memLast,
                   memSeq, transfer>>
    /\ UNCHANGED <<pureVars, veritasVars, documents>>

\* the backend answers after the branch of the agent was deleted: addMemory
\* throws (memory-system.js:81-84) and query() rethrows
BackendRespondsNoBranch(q) ==
    /\ q \in coIO
    /\ q.agent \notin DOMAIN branches
    /\ LET c == Conclude(q, FALSE, <<>>, "Memory branch not found for agent", memSeq)
       IN /\ coIO' = (coIO \ {q}) \cup c.next
          /\ coLast' = c.last
    /\ UNCHANGED <<serverStage, agents>>
    /\ UNCHANGED <<branches, sharedMemory, branchFiles, sharedFile, memIO, memLast,
                   memSeq, transfer>>
    /\ UNCHANGED <<pureVars, veritasVars, documents>>

\* the backend answers: query() calls addMemory (agent-coordinator.js:140-146,
\* memory-system.js:86-114), which runs up to the writeFile of saveBranch
BackendResponds(q, response) ==
    /\ q \in coIO
    /\ q.agent \in DOMAIN branches
    /\ LET branch == AppendToBranch(branches[q.agent], QueryMemory(q, response, memSeq),
                                    q.seq, memSeq)
           enriched == branch.memories[Len(branch.memories)]
       IN /\ branches' = MapSet(branches, q.agent, branch)
          /\ sharedMemory' = ShareIfSignificant(sharedMemory, enriched, q.agent, memSeq)
          /\ memIO' = memIO \cup {PendingQuery(q, "writeBranch", branch, response)}
    /\ coIO' = coIO \ {q}
    /\ UNCHANGED <<serverStage, agents, coLast>>
    /\ UNCHANGED <<branchFiles, sharedFile, memLast, memSeq, transfer>>
    /\ UNCHANGED <<pureVars, veritasVars, documents>>

\* the writeFile of saveBranch settles; addMemory goes on to
\* saveSharedMemory (memory-system.js:115, 284-287)
QueryBranchWritten(o) ==
    /\ o \in memIO
    /\ o.op = "query"
    /\ o.stage = "writeBranch"
    /\ branchFiles' = MapSet(branchFiles, o.agent, o.data)
    /\ memIO' = (memIO \ {o}) \cup {PendingQuery(o.call, "writeShared", sharedMemory,
                                                 o.response)}
    /\ UNCHANGED <<serverStage, agents, coIO, coLast>>
    /\ UNCHANGED <<branches, sharedMemory, sharedFile, memLast, memSeq, transfer>>
    /\ UNCHANGED <<pureVars, veritasVars, documents>>

\* the writeFile of saveSharedMemory settles: addMemory returns, query()
\* updates the statistics of the agent object it holds and returns
\* (agent-coordinator.js:148-162)
QueryStored(o) ==
    /\ o \in memIO
    /\ o.op = "query"
    /\ o.stage = "writeShared"
    /\ sharedFile' = o.data
    /\ memIO' = memIO \ {o}
    /\ agents' = IF o.agent \in DOMAIN agents
                 THEN [agents EXCEPT
                          ![o.agent].stats = UpdateStats(@, memSeq - o.call.startTime)]
                 ELSE agents
    /\ LET c == Conclude(o.call, TRUE, QueryResult(o.call, o.response, memSeq), "", memSeq)
       IN /\ coIO' = coIO \cup c.next
          /\ coLast' = c.last
    /\ UNCHANGED serverStage
    /\ UNCHANGED <<branches, sharedMemory, branchFiles, memLast, memSeq, transfer>>
    /\ UNCHANGED <<pureVars, veritasVars, documents>>

NextPortal ==
    \/ InitializeServer
    \/ \E s \in Services : CreateAgent("Mira", s)
    \/ \E o \in memIO : AgentBranchWritten(o)
    \/ \E a \in PortalIds : DeleteAgentUnknown(a)
    \/ \E a \in PortalIds : DeleteAgent(a)
    \/ \E o \in memIO : AgentUnlinked(o)
    \/ \E a \in PortalIds, m \in QueryMessages : QueryUnknownAgent(a, m)
    \/ \E a \in PortalIds, m \in QueryMessages, c \in BOOLEAN : Query(a, m, c)
    \/ \E m \in QueryMessages, c \in BOOLEAN : Broadcast(m, c)
    \/ \E q \in coIO : BackendFails(q)
    \/ \E q \in coIO : BackendRespondsNoBranch(q)
    \/ \E q \in coIO, r \in Responses : BackendResponds(q, r)
    \/ \E o \in memIO : QueryBranchWritten(o)
    \/ \E o \in memIO : QueryStored(o)

(***************************************************************************)
(* gatherContext on stores of bounded size                                 *)
(***************************************************************************)
\* the kinds of record a branch of these stores holds: a conversation, or
\* a record of another type handed to addMemory
RecordKinds == {"conversation", "note"}

RecordOfKind(kind) ==
    IF kind = "conversation"
    THEN MemoryInput("conversation", "What is 2+2?", "4", FALSE)
    ELSE MemoryInput("note", Undefined, Undefined, FALSE)

\* the branch of agentId after addMemory of one record per kind of kinds
RECURSIVE BranchOfKinds(_, _)
BranchOfKinds(agentId, kinds) ==
    IF kinds = <<>>
    THEN NewBranch(agentId, "Mira", 1)
    ELSE AppendToBranch(BranchOfKinds(agentId, SubSeq(kinds, 1, Len(kinds) - 1)),
                        RecordOfKind(kinds[Len(kinds)]),
                        Len(kinds) + 1, Len(kinds) + 1)

KindSeqs == UNION {[1 .. n -> RecordKinds] : n \in 0 .. MaxRecords}

\* each agent has no branch or a branch of up to MaxRecords records
ContextStores == UNION {[S -> KindSeqs] : S \in SUBSET AgentIds}

\* the shared pool is empty or holds the long exchange a since deleted
\* agent promoted
SharedPools ==
    {<<>>,
     ShareIfSignificant(<<>>,
                        EnrichMemory(NewBranch("a0", "Bonny", 1),
                                     MemoryInput("conversation", "What is 2+2?",
                                                 Text50 \o Text51, FALSE),
                                     2, 2),
                        "a0", 2)}

\* the document index is empty or holds one document added with
\* addDocument (memory-system.js:473-484)
DocumentIndexes ==
    {<<>>,
     <<[id |-> "doc_1", filename |-> "sums.txt", content |-> "What is 2+2?",
        type |-> "text"]>>}

InitContext ==
    /\ \E f \in ContextStores :
           branches = [a \in DOMAIN f |-> BranchOfKinds(a, f[a])]
    /\ sharedMemory \in SharedPools
    /\ documents \in DocumentIndexes
    /\ branchFiles = branches
    /\ sharedFile = sharedMemory
    /\ memIO = {}
    /\ memLast = NoOp
    /\ memSeq = 0
    /\ transfer = NoTransfer
    /\ serverStage = "listening"
    /\ agents = NoAgents
    /\ coIO = {}
    /\ coLast = NoCall

\* a caller assembles the context of an agent for a query
GatherContext(agentId, query) ==
    /\ coLast' = [op |-> "gatherContext", agent |-> agentId, query |-> query,
                  parts |-> gatherContext(agentId, query)]
    /\ UNCHANGED <<serverStage, agents, coIO, documents>>
    /\ UNCHANGED memoryVars
    /\ UNCHANGED <<pureVars, veritasVars>>

NextContext ==
    \E a \in AgentIds, q \in QueryMessages : GatherContext(a, q)

(***************************************************************************)
(* Ledger search: GET /api/veritas/search (server.js:428-465)              *)
(***************************************************************************)
\* The texts of this part are sequences of characters, so that lowering
\* the case and searching a substring are computed.
Docker == <<"D", "o", "c", "k", "e", "r">>
Python == <<"P", "y", "t", "h", "o", "n">>

\* String.prototype.toLowerCase on the characters the texts use
LowerChar(c) ==
    CASE c = "D" -> "d"
      [] c = "O" -> "o"
      [] c = "C" -> "c"
      [] c = "K" -> "k"
      [] c = "P" -> "p"
      [] OTHER -> c
toLowerCase(text) == [i \in DOMAIN text |-> LowerChar(text[i])]

\* String.prototype.includes
includes(text, part) ==
    \E i \in 0 .. Len(text) - Len(part) : SubSeq(text, i + 1, i + Len(part)) = part

\* a record sealed at completedAt with no internal evidence
SearchRecord(id, claim, context, completedAt) ==
    SealVerification(NewVerification(id, claim, context, completedAt - 1),
                     [ok |-> FALSE, matches |-> 0], <<>>, completedAt)

\* the verifications a ledger of this part may hold: Docker verified in two
\* contexts, Python in one
SearchClaims ==
    {<<"v1", Docker, CtxDefault>>, <<"v2", Docker, CtxNumber(1)>>,
     <<"v3", Python, CtxDefault>>}

\* the orders in which up to MaxLedger of them were verified, one after
\* the other
VerificationOrders ==
    {order \in SeqsUpTo(SearchClaims, MaxLedger) :
        \A i, j \in DOMAIN order : i # j => order[i] # order[j]}

\* the ledger after the verifications of order: the k-th is sealed at 2k
LedgerOf(order) ==
    [id \in {order[k][1] : k \in DOMAIN order} |->
        LET k == CHOOSE n \in DOMAIN order : order[n][1] = id
        IN SearchRecord(id, order[k][2], order[k][3], 2 * k)]

\* the entries of the Map in iteration order, which is the order of
\* insertion: a record is set when it is sealed (part_011:278), so in a
\* ledger filled by one verification after the other this is the order of
\* completedAt
RECURSIVE LedgerEntries(_, _)
LedgerEntries(ledger, ids) ==
    IF ids = {}
    THEN <<>>
    ELSE LET first == CHOOSE x \in ids :
                          \A y \in ids : ledger[x].completedAt <= ledger[y].completedAt
         IN <<ledger[first]>> \o LedgerEntries(ledger, ids \ {first})

\* parseInt(urlParams.get('limit')) || 10: an absent limit, and 0, are 10
LimitOrDefault(limit) == IF limit = 0 THEN 10 ELSE limit

\* the entry the handler pushes for a matching record (server.js:443-450)
SearchResult(verification) ==
    [id |-> verification.id, claim |-> verification.claim,
     status |-> verification.status, confidence |-> verification.confidence,
     sources |-> Len(verification.sources),
     timestamp |-> IF verification.completedAt # NoTime
                   THEN verification.completedAt
                   ELSE verification.startedAt]

\* the loop of server.js:439-453 over the entries left, with the results
\* found so far
RECURSIVE SearchLoop(_, _, _, _)
SearchLoop(entries, query, limit, results) ==
    IF entries = <<>> \/ Len(results) >= limit
    THEN results
    ELSE SearchLoop(Tail(entries), query, limit,
                    IF includes(toLowerCase(Head(entries).claim), toLowerCase(query))
                    THEN Append(results, SearchResult(Head(entries)))
                    ELSE results)

searchLedger(query, limit) ==
    SearchLoop(LedgerEntries(truthDatabase, DOMAIN truthDatabase), query,
               LimitOrDefault(limit), <<>>)

SearchQueries == {<<"d", "o", "c", "k">>, <<"D", "O", "C", "K", "E", "R">>,
                  <<"r", "u", "s", "t">>}
SearchLimits == {0, 1, 2}

InitSearch ==
    /\ \E order \in VerificationOrders :
           /\ truthDatabase = LedgerOf(order)
           /\ now = 2 * Len(order) + 1
    /\ truthFile = truthDatabase
    /\ initStage = "ready"
    /\ verificationSources = "initialized"
    /\ syncDatabase = <<>>
    /\ calls = [p \in Callers |-> IdleCall]
    /\ returned = <<>>
    /\ syncHistory = <<>>
    /\ pureOut = NoResult
    /\ \E q \in SearchQueries, l \in SearchLimits :
           pureIn = [fn |-> "searchLedger", query |-> q, limit |-> l]

\* the handler answers a search request
SearchLedger ==
    /\ pureIn.fn = "searchLedger"
    /\ ~pureOut.done
    /\ pureOut' = [done |-> TRUE, value |-> searchLedger(pureIn.query, pureIn.limit)]
    /\ UNCHANGED <<pureIn, veritasVars, memoryVars, coordVars>>

NextSearch == SearchLedger

(***************************************************************************)
(* Specifications                                                          *)
(***************************************************************************)
PureParked ==
    /\ pureIn = [fn |-> "none", sources |-> <<>>, confidence |-> Zero]
    /\ pureOut = NoResult

VeritasParked ==
    /\ initStage = "ready"
    /\ truthFile = EmptyLedger
    /\ verificationSources = "initialized"
    /\ syncDatabase = <<>>
    /\ truthDatabase = EmptyLedger
    /\ calls = [p \in Callers |-> IdleCall]
    /\ returned = <<>>
    /\ now = 1
    /\ syncHistory = <<>>

MemoryParked == InitMemory

\* the coordinator idle, with no agent
CoordParked ==
    /\ serverStage = "listening"
    /\ agents = NoAgents
    /\ coIO = {}
    /\ coLast = NoCall
    /\ documents = <<>>

InitSpecPure == InitPure /\ VeritasParked /\ MemoryParked /\ CoordParked

SpecPure == InitSpecPure /\ [][NextPure]_vars

InitSpecVeritas == InitVeritas /\ PureParked /\ MemoryParked /\ CoordParked

SpecVeritas == InitSpecVeritas /\ [][NextVeritas]_vars

\* The engine with what its scheduling guarantees: initialize() runs on,
\* and the writeFile of saveTruthDatabase settles.  Nothing bounds the
\* wait for the readFile of searchChatGPTHistory (part_011:396), so a
\* source that never answers is a read that never settles.
LiveVeritas ==
    /\ SpecVeritas
    /\ WF_vars(LoadTruthDatabase)
    /\ WF_vars(FinishInitialize)
    /\ \A p \in Callers : WF_vars(SaveDone(p))

InitSpecRecall == InitRecall /\ PureParked /\ VeritasParked /\ CoordParked

SpecRecall == InitSpecRecall /\ [][NextRecall]_vars

InitSpecTransfer == InitTransfer /\ PureParked /\ VeritasParked /\ CoordParked

SpecTransfer == InitSpecTransfer /\ [][NextTransfer]_vars

InitSpecPortal == InitPortal /\ PureParked /\ VeritasParked

SpecPortal == InitSpecPortal /\ [][NextPortal]_vars

InitSpecContext == InitContext /\ PureParked /\ VeritasParked

SpecContext == InitSpecContext /\ [][NextContext]_vars

InitSpecSync ==
    /\ InitSync
    /\ VeritasParked
    /\ MemoryParked
    /\ CoordParked

SpecSync == InitSpecSync /\ [][NextSync]_vars

InitSpecSearch == InitSearch /\ MemoryParked /\ CoordParked

SpecSearch == InitSpecSearch /\ [][NextSearch]_vars

InitSpecMemory == InitMemory /\ PureParked /\ VeritasParked /\ CoordParked

SpecMemory == InitSpecMemory /\ [][NextMemory]_vars

(***************************************************************************)
(* Properties of the verification engine (SpecVeritas)                     *)
(***************************************************************************)
TerminalStatuses ==
    {"verified_high", "verified_medium", "verified_low", "unverified", "error"}
VerifiedStatuses == {"verified_high", "verified_medium", "verified_low"}

Returned == {returned[i] : i \in DOMAIN returned}

HasSourceOfType(v, t) == \E i \in DOMAIN v.sources : v.sources[i].type = t

\* C1: two verifyClaim calls for the same (claim, context), the second issued
\* after the first returned, both return a record, with the same id and the
\* same status; the second is answered from the ledger, which holds the id.
C1_Idempotent ==
    \A i, j \in DOMAIN returned :
        (/\ i < j
         /\ returned[i].claim # NotAString
         /\ returned[i].claim = returned[j].claim
         /\ returned[i].context = returned[j].context
         /\ returned[j].issuedAt > returned[i].returnedAt)
        => /\ returned[i].outcome = "record"
           /\ returned[j].outcome = "record"
           /\ returned[i].record.id = returned[j].record.id
           /\ returned[i].record.status = returned[j].record.status
           /\ returned[j].cached
           /\ returned[j].record.id \in DOMAIN truthDatabase

\* C2: once the ledger holds a record for a hash, no later step replaces or
\* removes it (the first run to seal wins).
C2_SealedOnce ==
    [][\A k \in DOMAIN truthDatabase :
           k \in DOMAIN truthDatabase' /\ truthDatabase'[k] = truthDatabase[k]]_vars

\* C3: every verifyClaim call returns a record (it never raises); the record
\* has a terminal status and a completion time, and an error record keeps
\* the failure message.
C3_AlwaysSealedRecord ==
    \A r \in Returned :
        /\ r.outcome = "record"
        /\ r.record.status \in TerminalStatuses
        /\ r.record.completedAt # NoTime
        /\ r.record.status = "error" => r.record.error # NoError

\* C4: a verifyClaim call for a claim with no ledger entry returns a record
\* with a verified_* status and at least one evidence item, whenever after
\* construction the call is made.
C4_FreshClaimVerified ==
    \A r \in Returned :
        (r.claim # NotAString /\ ~r.cached)
        => /\ r.outcome = "record"
           /\ r.record.status \in VerifiedStatuses
           /\ Len(r.record.sources) >= 1

\* the runs that have passed the guard of part_011:268, in flight or returned
PastGuard ==
    {[guard |-> r.guard, record |-> r.record] : r \in {x \in Returned : x.guard.reached}}
        \cup {[guard |-> calls[p].guard, record |-> calls[p].verification] :
                 p \in {q \in Callers : calls[q].guard.reached}}

C6_ReturnedIsPersisted ==
    \A r \in Returned :
        r.outcome = "record"
        => /\ r.record.id \in DOMAIN truthDatabase
           /\ truthDatabase[r.record.id] = r.record

\* the read of the chat log that fails
FailedRead == [ok |-> FALSE, matches |-> 0]

ItemsOfType(v, type) == SelectSeq(v.sources, LAMBDA item : item.type = type)

TableWeight ==
    [historical_reference |-> 8, memory_reference |-> 9, agent_research |-> 7,
     agent_critical |-> 6, external_verification |-> 7, browser_verification |-> 5]

RECURSIVE DenominatorProduct(_, _)
DenominatorProduct(items, i) ==
    IF i > Len(items) THEN 1
    ELSE items[i].confidence[2] * DenominatorProduct(items, i + 1)

\* sum of w(type_i), in tenths
RECURSIVE WeightSum(_, _)
WeightSum(items, i) ==
    IF i > Len(items) THEN 0
    ELSE TableWeight[items[i].type] + WeightSum(items, i + 1)

\* sum of conf_i * w(type_i), in tenths over the common denominator D
RECURSIVE WeightedConfidenceSum(_, _, _)
WeightedConfidenceSum(items, i, D) ==
    IF i > Len(items) THEN 0
    ELSE items[i].confidence[1] * (D \div items[i].confidence[2])
             * TableWeight[items[i].type]
         + WeightedConfidenceSum(items, i + 1, D)

ExampleItems ==
    <<[name |-> "input", confidence |-> Rat(9, 10), type |-> "memory_reference"],
      [name |-> "input", confidence |-> Rat(6, 10), type |-> "agent_critical"]>>

C8_StatusBands ==
    (pureOut.done /\ pureIn.fn = "determineVerificationStatus")
    => LET n == pureIn.confidence[1]
           d == pureIn.confidence[2]
           st == pureOut.status
       IN /\ st \in {"verified_high", "verified_medium", "verified_low", "unverified"}
          /\ st = "verified_high" <=> 10 * n >= 9 * d
          /\ st = "verified_medium" <=> (10 * n >= 7 * d /\ 10 * n < 9 * d)
          /\ st = "verified_low" <=> (10 * n >= 5 * d /\ 10 * n < 7 * d)
          /\ st = "unverified" <=> 10 * n < 5 * d

\* C8 witness: a confidence of exactly 0.7 has been mapped to verified_medium.
C8_Witness ==
    /\ pureOut.done
    /\ pureIn.fn = "determineVerificationStatus"
    /\ pureIn.confidence = <<7, 10>>
    /\ pureOut.status = "verified_medium"

(***************************************************************************)
(* Properties of the memory store (SpecMemory)                             *)
(***************************************************************************)
\* the records of every branch, and the shared entries
BranchRecords ==
    UNION {{branches[b].memories[i] : i \in DOMAIN branches[b].memories} :
               b \in DOMAIN branches}
SharedEntries == {sharedMemory[i] : i \in DOMAIN sharedMemory}

\* C9: once a deleteBranch(a) that was issued after every earlier operation
\* had finished has returned, and nothing was issued since, the store holds
\* no branch for a, no MemoryRecord of a and no SharedMemoryEntry whose
\* source is a.
C9_NoResidueAfterDelete ==
    (/\ memLast.op = "deleteBranch"
     /\ memLast.alone
     /\ memLast.seq = memSeq
     /\ memIO = {})
    => /\ memLast.agent \notin DOMAIN branches
       /\ \A r \in BranchRecords : r.agentId # memLast.agent
       /\ \A e \in SharedEntries : e.source # memLast.agent

\* C10: a createBranch call on an agent id that has a branch fails with
\* DuplicateBranch and leaves that branch as it was.
C10_DuplicateBranchRejected ==
    [][\A a \in AgentIds, n \in AgentNames :
           (a \in DOMAIN branches /\ CreateBranch(a, n))
           => /\ branches'[a] = branches[a]
              /\ memLast'.op = "createBranch"
              /\ memLast'.agent = a
              /\ memLast'.result = "DuplicateBranch"]_vars

\* an addMemory call on agent a is issued in this step
AddMemoryIssued(a) ==
    /\ memSeq' = memSeq + 1
    /\ \/ /\ memLast'.seq = memSeq'
          /\ memLast'.op = "addMemory"
          /\ memLast'.agent = a
       \/ \E o \in memIO' : o.seq = memSeq' /\ o.op = "addMemory" /\ o.agent = a

\* C11: an addMemory call on an agent id that has no branch fails (the
\* UnknownAgent error, "Memory branch not found for agent") and changes
\* nothing: no branch is created or modified, the shared pool and the files
\* are unchanged and no write is started.
C11_UnknownAgentRejected ==
    [][\A a \in AgentIds :
           (a \notin DOMAIN branches /\ AddMemoryIssued(a))
           => /\ memLast'.op = "addMemory"
              /\ memLast'.agent = a
              /\ memLast'.result = "Memory branch not found for agent"
              /\ branches' = branches
              /\ sharedMemory' = sharedMemory
              /\ branchFiles' = branchFiles
              /\ sharedFile' = sharedFile
              /\ memIO' = memIO]_vars

\* C11 witness: addMemory was rejected for an agent without a branch while
\* another agent had a branch and the pool held an entry.
C11_Witness ==
    /\ memLast.op = "addMemory"
    /\ memLast.result = "Memory branch not found for agent"
    /\ memLast.agent \notin DOMAIN branches
    /\ DOMAIN branches # {}
    /\ sharedMemory # <<>>

\* request length + response length of a record
CombinedLength(m) == Len(OrEmpty(m.user)) + Len(OrEmpty(m.assistant))

\* the record an addMemory step on agent a has just appended
Appended(a) == branches'[a].memories[Len(branches'[a].memories)]

\* C12: the promotion threshold is exclusive: appending a conversation
\* record of combined length exactly 100 adds no shared entry, and appending
\* one of combined length 101 adds exactly one shared entry, that of the
\* record.
C12_ThresholdExclusive ==
    [][\A a \in AgentIds, m \in MemoryInputs :
           (AddMemory(a, m) /\ m.type = "conversation")
           => /\ CombinedLength(m) = 100 => sharedMemory' = sharedMemory
              /\ CombinedLength(m) = 101 =>
                     /\ Len(sharedMemory') = Len(sharedMemory) + 1
                     /\ SubSeq(sharedMemory', 1, Len(sharedMemory)) = sharedMemory
                     /\ sharedMemory'[Len(sharedMemory')].id = Appended(a).id]_vars

\* C12 witness: the pool holds the entry of a 101-character conversation and
\* a branch holds a 100-character conversation that has no entry.
C12_Witness ==
    /\ \E e \in SharedEntries : e.type = "conversation" /\ CombinedLength(e) = 101
    /\ \E r \in BranchRecords :
           /\ r.type = "conversation"
           /\ CombinedLength(r) = 100
           /\ \A e \in SharedEntries : e.id # r.id

\* C13: a conversation record in a branch has a copy in the shared pool if
\* and only if its combined length exceeds 100 or it is flagged important.
C13_SignificanceIncludesImportant ==
    \A r \in BranchRecords :
        r.type = "conversation"
        => ((\E e \in SharedEntries : e.id = r.id)
               <=> (CombinedLength(r) > 100 \/ r.important))

\* C14: promotion copies: an addMemory step that adds a shared entry leaves
\* the record in the owning branch, and the entry carries the record's
\* payload, the source agent id and the id of the branch record.
C14_PromotionCopies ==
    [][\A a \in AgentIds, m \in MemoryInputs :
           (AddMemory(a, m) /\ sharedMemory' # sharedMemory)
           => LET e == sharedMemory'[Len(sharedMemory')]
                  r == Appended(a)
              IN /\ Len(branches'[a].memories) = Len(branches[a].memories) + 1
                 /\ r.type = m.type /\ r.user = m.user /\ r.assistant = m.assistant
                 /\ e.source = a
                 /\ e.id = r.id
                 /\ e.type = r.type /\ e.user = r.user /\ e.assistant = r.assistant
                 /\ e.important = r.important /\ e.timestamp = r.timestamp
                 /\ e.agentId = a]_vars

\* C14 witness: a shared entry whose record is in the branch of its source.
C14_Witness ==
    \E e \in SharedEntries :
        /\ e.source \in DOMAIN branches
        /\ \E i \in DOMAIN branches[e.source].memories :
               /\ branches[e.source].memories[i].id = e.id
               /\ branches[e.source].memories[i].user = e.user

\* the last k elements of a sequence, in order
LastRecords(records, k) == SubSeq(records, Len(records) - k + 1, Len(records))

\* C15: getRecentMemories(a, count) returns, for every count >= 0, the last
\* min(count, n) records of the n-record branch of a in insertion order,
\* the empty list when a has no branch, and changes nothing in the store.
C15_RecentRecords ==
    [][\A a \in AgentIds, c \in RecentCounts :
           GetRecentMemories(a, c)
           => /\ branches' = branches /\ sharedMemory' = sharedMemory
              /\ branchFiles' = branchFiles /\ sharedFile' = sharedFile
              /\ a \notin DOMAIN branches => memLast'.value = <<>>
              /\ a \in DOMAIN branches =>
                     LET n == Len(branches[a].memories)
                     IN memLast'.value
                            = LastRecords(branches[a].memories, IF c < n THEN c ELSE n)]_vars

\* the agent ids of a sequence of branches, and the request/response
\* pairs it holds for an agent
ExportedAgentIds(bs) == {bs[i].agentId : i \in DOMAIN bs}
ExportedPairs(bs, a) ==
    UNION {{<<bs[i].memories[j].user, bs[i].memories[j].assistant>> :
                j \in DOMAIN bs[i].memories} :
               i \in {x \in DOMAIN bs : bs[x].agentId = a}}

\* C16: when importFromMeneLTM, given the result of exportAllMemories and
\* started on a new, empty store, has returned, the store has the agent ids
\* of the exported store and, per agent, the same request/response pairs.
C16_ExportImportRoundTrip ==
    (/\ transfer.importOf = "export"
     /\ transfer.fresh
     /\ memLast.op = "importFromMeneLTM"
     /\ memIO = {})
    => LET original == transfer.exported.branches
           imported == MapValues(branches)
       IN /\ memLast.result = "ok"
          /\ ExportedAgentIds(imported) = ExportedAgentIds(original)
          /\ \A a \in ExportedAgentIds(original) :
                 ExportedPairs(imported, a) = ExportedPairs(original, a)

\* seq is a prefix of longer
IsPrefix(seq, longer) ==
    /\ Len(seq) <= Len(longer)
    /\ SubSeq(longer, 1, Len(seq)) = seq

\* C27: in every step that does not delete the branch, the records a branch
\* held are a prefix of the records it holds afterwards, and the entries of
\* the shared pool are a prefix of its entries afterwards.
C27_AppendOnly ==
    [][/\ \A a \in DOMAIN branches \cap DOMAIN branches' :
              IsPrefix(branches[a].memories, branches'[a].memories)
       /\ IsPrefix(sharedMemory, sharedMemory')]_vars

\* C30: when the store holds no branch for an agent and no operation on
\* that agent is still writing or unlinking, storage holds no branch file
\* for the agent: a deleteBranch that ran while an addMemory or a
\* createBranch of the agent was saving is not undone by that save.
C30_DeletionNotUndone ==
    \A a \in AgentIds :
        (/\ a \notin DOMAIN branches
         /\ \A o \in memIO : o.agent # a)
        => a \notin DOMAIN branchFiles

(***************************************************************************)
(* Properties of the coordinator (SpecPortal)                              *)
(***************************************************************************)
\* C17: in every reachable state the agent ids of the coordinator's
\* registry are the agent ids that have a memory branch.
C17_OneBranchPerAgent == DOMAIN agents = DOMAIN branches

\* the last element of a non-empty sequence
Last(seq) == seq[Len(seq)]

\* C18: when the backend has answered a query, exactly one conversation
\* record is appended to the agent's branch, with the original text as the
\* request, the backend's output as the response and the assembled context
\* (or null) as the context; no other branch changes; nothing is promoted
\* when request and response have at most 100 characters together; and when
\* the query returns, its caller is told of the success and the query count
\* of the agent grows by exactly 1.
C18_QueryAppendsOneRecord ==
    [][/\ \A q \in coIO, r \in Responses :
              BackendResponds(q, r)
              => /\ DOMAIN branches' = DOMAIN branches
                 /\ \A b \in DOMAIN branches \ {q.agent} : branches'[b] = branches[b]
                 /\ Len(branches'[q.agent].memories)
                        = Len(branches[q.agent].memories) + 1
                 /\ SubSeq(branches'[q.agent].memories, 1,
                           Len(branches[q.agent].memories))
                        = branches[q.agent].memories
                 /\ Last(branches'[q.agent].memories).type = "conversation"
                 /\ Last(branches'[q.agent].memories).user = q.message
                 /\ Last(branches'[q.agent].memories).assistant = r
                 /\ Last(branches'[q.agent].memories).context.null = (q.context = <<>>)
                 /\ Last(branches'[q.agent].memories).context.parts = q.context
                 /\ Len(q.message) + Len(r) <= 100 => sharedMemory' = sharedMemory
       /\ \A o \in memIO :
              QueryStored(o)
              => /\ branches' = branches
                 /\ sharedMemory' = sharedMemory
                 /\ DOMAIN agents' = DOMAIN agents
                 /\ \A b \in DOMAIN agents \ {o.agent} : agents'[b] = agents[b]
                 /\ o.agent \in DOMAIN agents =>
                        agents'[o.agent].stats.totalQueries
                            = agents[o.agent].stats.totalQueries + 1
                 /\ ~o.call.bc.active =>
                        /\ coLast'.op = "query"
                        /\ coLast'.success
                        /\ coLast'.result.response = o.response]_vars

\* C18 witness: a query with context has returned successfully to its
\* caller; it was the second query of the agent, whose branch holds the two
\* records, the later one with the assembled context, and nothing was
\* promoted.
C18_Witness ==
    /\ coLast.op = "query"
    /\ coLast.success
    /\ ~coLast.result.context.null
    /\ coLast.agent \in DOMAIN agents
    /\ agents[coLast.agent].stats.totalQueries = 2
    /\ coLast.agent \in DOMAIN branches
    /\ Len(branches[coLast.agent].memories) = 2
    /\ Last(branches[coLast.agent].memories).context = coLast.result.context
    /\ Last(branches[coLast.agent].memories).assistant = coLast.result.response
    /\ sharedMemory = <<>>

\* the records of a branch that the query issued as call seq contributed
RecordsOfQuery(agentId, seq) ==
    SelectSeq(branches[agentId].memories, LAMBDA m : m.id = seq)

\* C28: the record of a query is appended when its backend call completes,
\* behind every record the branch then holds, whatever the order in which
\* the queries in flight were issued; a query whose backend call has not
\* completed has no record, and a query that is saving its record has
\* exactly one record in the branch.
C28_AppendFollowsCompletion ==
    /\ [][\A q \in coIO, r \in Responses :
              BackendResponds(q, r)
              => /\ IsPrefix(branches[q.agent].memories, branches'[q.agent].memories)
                 /\ Len(branches'[q.agent].memories)
                        = Len(branches[q.agent].memories) + 1
                 /\ Last(branches'[q.agent].memories).id = q.seq
                 /\ \A other \in coIO \ {q} :
                        /\ other \in coIO'
                        /\ other.agent \in DOMAIN branches'
                               => RecordsOfQuery(other.agent, other.seq)' = <<>>]_vars
    /\ [](\A q \in coIO :
              q.agent \in DOMAIN branches => RecordsOfQuery(q.agent, q.seq) = <<>>)
    /\ [](\A o \in memIO :
              o.op = "query" /\ o.agent \in DOMAIN branches
              => Len(RecordsOfQuery(o.agent, o.seq)) = 1)

\* C28 witness: two queries to one agent were in flight together and the
\* one issued later completed first: its record stands before the record of
\* the one issued earlier, and both records are in the branch.
C28_Witness ==
    \E a \in DOMAIN branches :
        /\ Len(branches[a].memories) = 2
        /\ branches[a].memories[1].id > branches[a].memories[2].id
        /\ coIO = {}

\* C19: when the backend call of a query fails, the error reaches the
\* caller, the backend has been invoked once and is not invoked again, no
\* record and no shared entry is appended and no write is started, and the
\* statistics of every agent are unchanged.
C19_BackendFailurePropagates ==
    [][\A q \in coIO :
           BackendFails(q)
           => /\ coLast'.success = FALSE
              /\ coLast'.error = "UpstreamError"
              /\ ~q.bc.active =>
                     /\ coLast'.op = "query"
                     /\ coLast'.agent = q.agent
                     /\ coLast'.invoked = 1
              /\ q.invoked = 1
              /\ coIO' = coIO \ {q}
              /\ branches' = branches
              /\ sharedMemory' = sharedMemory
              /\ memIO' = memIO
              /\ agents' = agents]_vars

\* C19 witness: a query of an agent that had answered one query before has
\* failed at the backend and its caller was told so.
C19_Witness ==
    /\ coLast.op = "query"
    /\ ~coLast.success
    /\ coLast.error = "UpstreamError"
    /\ coLast.invoked = 1
    /\ coLast.agent \in DOMAIN agents
    /\ agents[coLast.agent].stats.totalQueries = 1
    /\ Len(branches[coLast.agent].memories) = 1

\* C20: when a broadcast has ended, a query was attempted for every agent
\* that was registered when it began, and its caller has an outcome for
\* each of them: the responses of those that succeeded and the error of the
\* one that failed.
C20_BroadcastIsolation ==
    coLast.op = "broadcast"
    => /\ coLast.attempted = coLast.targets
       /\ Len(coLast.responses) + (IF coLast.success THEN 0 ELSE 1)
              >= Len(coLast.targets)

(***************************************************************************)
(* Properties of context assembly (SpecContext)                            *)
(***************************************************************************)
SectionHeaders ==
    <<"=== YOUR RECENT MEMORY ===",
      "=== SHARED KNOWLEDGE (Other Agents) ===",
      "=== KNOWLEDGE BASE (CogniVault) ===">>

\* a part of the context that is a section header, and its place in the
\* order of sections
IsHeader(part) == Len(part) = 1
HeaderRank(part) == CHOOSE k \in 1 .. 3 : SectionHeaders[k] = part[1]

\* C21: the context gatherContext assembles has its sections in the order
\* own recent memory, shared knowledge, knowledge base, and a section's
\* header is there only with at least one rendered item after it; no
\* own-memory header is there when the agent's recent records hold no
\* conversation record.
C21_SectionsOrderedAndNonEmpty ==
    coLast.op = "gatherContext"
    => LET parts == coLast.parts
           recent == getRecentMemories(coLast.agent, 5)
       IN /\ \A i, j \in DOMAIN parts :
                 (i < j /\ IsHeader(parts[i]) /\ IsHeader(parts[j]))
                 => HeaderRank(parts[i]) < HeaderRank(parts[j])
          /\ \A i \in DOMAIN parts :
                 IsHeader(parts[i])
                 => (i < Len(parts) /\ ~IsHeader(parts[i + 1]))
          /\ (\A k \in DOMAIN recent : recent[k].type # "conversation")
             => \A i \in DOMAIN parts : parts[i] # <<SectionHeaders[1]>>

(***************************************************************************)
(* Properties of the memory sync (SpecSync)                                *)
(***************************************************************************)
\* C22: prepareSyncData returns the snapshot unchanged when its serialized
\* size is within the budget; otherwise what it returns has a serialized
\* size of at most the budget and, when it holds any key_insights, holds
\* the first 5 verified_facts of the snapshot.
C22_SyncWithinBudget ==
    (pureIn.fn = "prepareSyncData" /\ pureOut.done)
    => LET memoryData == pureIn.memoryData[1]
           budget == pureIn.contextWindow
           prepared == pureOut.value
       IN IF JSONLength(memoryData) <= budget
          THEN prepared = memoryData
          ELSE /\ JSONLength(prepared) <= budget
               /\ prepared.key_insights # <<>>
                  => prepared.verified_facts
                         = SliceOrEmpty(memoryData, "verified_facts", 5)

\* C23: syncMemoryAcrossPlatforms does not throw and returns one result for
\* every requested platform: status error for a platform that is not
\* supported, status success with the method of its configuration for
\* chatgpt, genspark and kindroid.
C23_SyncReportsPerPlatform ==
    (pureIn.fn = "syncMemoryAcrossPlatforms" /\ pureOut.done)
    => /\ ~pureOut.threw
       /\ DOMAIN pureOut.value = {pureIn.platforms[i] : i \in DOMAIN pureIn.platforms}
       /\ \A p \in DOMAIN pureOut.value :
              IF p \in DOMAIN platformConfigs
              THEN /\ pureOut.value[p].status = "success"
                   /\ pureOut.value[p].method = platformConfigs[p].method
              ELSE pureOut.value[p].status = "error"

(***************************************************************************)
(* Properties of the ledger search (SpecSearch)                            *)
(***************************************************************************)
\* C24: a search returns only records whose claim holds the query without
\* regard to case, at most limit of them, the more recent first among
\* records of equal relevance (here: of the same claim text), and leaves
\* the truth ledger as it was.
C24_SearchOrderedByRecency ==
    /\ [](pureIn.fn = "searchLedger" /\ pureOut.done
          => LET results == pureOut.value
             IN /\ \A i \in DOMAIN results :
                       includes(toLowerCase(results[i].claim), toLowerCase(pureIn.query))
                /\ Len(results) <= LimitOrDefault(pureIn.limit)
                /\ \A i, j \in DOMAIN results :
                       (i < j /\ results[i].claim = results[j].claim)
                       => results[i].timestamp >= results[j].timestamp)
    /\ [][SearchLedger => truthDatabase' = truthDatabase]_vars

====
